---- MODULE Spec2Model ----
(***************************************************************************)
(* Model of the model-intel core of the Journeys repository:               *)
(*   packages/model-intel-core/src/openRouterModels.ts  (normalizer and    *)
(*   capability classifier) and the benchmark parser / matcher             *)
(*   (src/unnamed/part_002).                                               *)
(*                                                                         *)
(* A JavaScript string is a sequence of one-character strings, so that     *)
(* split, includes, toLowerCase and charAt are computed character by       *)
(* character.  Every function of the core is pure; a specification draws   *)
(* the arguments of one invocation in its initial state and its actions    *)
(* run the function.                                                       *)
(***************************************************************************)
EXTENDS Integers, Sequences, FiniteSets, TLC

VARIABLES
    fn,         \* the function the invocation runs
    in,         \* its arguments
    pc,         \* "call" before the body ran, "loop" inside matchBenchmark's for, "done" after the return
    out,        \* the returned value (Pending until pc = "done")
    idx,        \* matchBenchmark: number of benchmarks the for loop has consumed
    bestMatch,  \* matchBenchmark: local bestMatch (index into benchmarks, 0 = undefined)
    bestScore,  \* matchBenchmark: local bestScore, a rational <<numerator, denominator>>
    calls,      \* interleaved invocations: fn, in, pc and out of each (empty when one invocation runs)
    frames,     \* interleaved invocations: the activation records holding matchBenchmark's locals
    articles,   \* gallery: the posters, each with its --hov flag and its 'centered' class
    cssK,       \* gallery: the custom property --k of the body (numerator over KDen)
    fullArticle,\* gallery: the poster the full-article view shows, 0 while it is hidden
    event       \* gallery: the event the last listener handled

vars == <<fn, in, pc, out, idx, bestMatch, bestScore, calls, frames, articles, cssK, fullArticle, event>>

\* the state of the model-intel core, and that of the gallery page
core == <<fn, in, pc, out, idx, bestMatch, bestScore, calls, frames>>
gallery == <<articles, cssK, fullArticle, event>>

\* no page is loaded while a function of the core runs
NoPage ==
    /\ articles = <<>>
    /\ cssK = 0
    /\ fullArticle = 0
    /\ event = <<>>

Pending == "pending"

(***************************************************************************)
(* Bounds of the model.                                                    *)
(***************************************************************************)
\* longest generated (exhaustively enumerated) string
MaxLen == 3

(***************************************************************************)
(* JavaScript strings.                                                     *)
(***************************************************************************)
LowerAlpha == <<"a","b","c","d","e","f","g","h","i","j","k","l","m",
                "n","o","p","q","r","s","t","u","v","w","x","y","z">>
Digits == {"0","1","2","3","4","5","6","7","8","9"}

Range(s) == {s[i] : i \in DOMAIN s}

\* String.prototype.toLowerCase / toUpperCase on one character (ASCII):
\* the letters that change, as records from a letter to its other case
LowerOf ==
    [A |-> "a", B |-> "b", C |-> "c", D |-> "d", E |-> "e", F |-> "f",
     G |-> "g", H |-> "h", I |-> "i", J |-> "j", K |-> "k", L |-> "l",
     M |-> "m", N |-> "n", O |-> "o", P |-> "p", Q |-> "q", R |-> "r",
     S |-> "s", T |-> "t", U |-> "u", V |-> "v", W |-> "w", X |-> "x",
     Y |-> "y", Z |-> "z"]
UpperOf ==
    [a |-> "A", b |-> "B", c |-> "C", d |-> "D", e |-> "E", f |-> "F",
     g |-> "G", h |-> "H", i |-> "I", j |-> "J", k |-> "K", l |-> "L",
     m |-> "M", n |-> "N", o |-> "O", p |-> "P", q |-> "Q", r |-> "R",
     s |-> "S", t |-> "T", u |-> "U", v |-> "V", w |-> "W", x |-> "X",
     y |-> "Y", z |-> "Z"]

LowerChar(c) == IF c \in DOMAIN LowerOf THEN LowerOf[c] ELSE c
UpperChar(c) == IF c \in DOMAIN UpperOf THEN UpperOf[c] ELSE c

toLowerCase(s) == [i \in 1..Len(s) |-> LowerChar(s[i])]
toUpperCase(s) == [i \in 1..Len(s) |-> UpperChar(s[i])]

\* s.includes(sub): sub occurs in s as a contiguous run (the empty string always does)
includes(s, sub) ==
    \E i \in 0..(Len(s) - Len(sub)) : SubSeq(s, i + 1, i + Len(sub)) = sub

\* s.indexOf(sep), 1-based; 0 when sep does not occur
indexOf(s, sep) ==
    IF includes(s, sep)
    THEN 1 + CHOOSE i \in 0..(Len(s) - Len(sep)) :
                /\ SubSeq(s, i + 1, i + Len(sep)) = sep
                /\ \A j \in 0..(i - 1) : SubSeq(s, j + 1, j + Len(sep)) # sep
    ELSE 0

\* s.split(sep) for a non-empty separator: always at least one part
RECURSIVE split(_, _)
split(s, sep) ==
    LET k == indexOf(s, sep)
    IN  IF k = 0
        THEN <<s>>
        ELSE <<SubSeq(s, 1, k - 1)>> \o split(SubSeq(s, k + Len(sep), Len(s)), sep)

\* s.charAt(0) and s.slice(1)
charAt0(s) == IF Len(s) = 0 THEN <<>> ELSE <<s[1]>>
slice1(s) == IF Len(s) = 0 THEN <<>> ELSE Tail(s)

\* every string of length at most n over the characters of alphabet
RECURSIVE StringsUpTo(_, _)
StringsUpTo(alphabet, n) ==
    IF n = 0
    THEN {<<>>}
    ELSE LET shorter == StringsUpTo(alphabet, n - 1)
         IN  shorter \cup {<<c>> \o s : c \in alphabet, s \in {t \in shorter : Len(t) = n - 1}}

\* every upper/lower-case variant of a string
RECURSIVE CaseVariants(_)
CaseVariants(s) ==
    IF s = <<>>
    THEN {<<>>}
    ELSE {<<c>> \o r : c \in {LowerChar(Head(s)), UpperChar(Head(s))}, r \in CaseVariants(Tail(s))}

(***************************************************************************)
(* Model Normalizer: provider extraction.                                  *)
(***************************************************************************)
\* PROVIDER_MAP, as the sequence of its <<key, display name>> entries
PROVIDER_MAP ==
    << << <<"o","p","e","n","a","i">>,                     <<"O","p","e","n","A","I">> >>,
       << <<"a","n","t","h","r","o","p","i","c">>,         <<"A","n","t","h","r","o","p","i","c">> >>,
       << <<"g","o","o","g","l","e">>,                     <<"G","o","o","g","l","e">> >>,
       << <<"m","e","t","a","-","l","l","a","m","a">>,     <<"M","e","t","a">> >>,
       << <<"m","i","s","t","r","a","l","a","i">>,         <<"M","i","s","t","r","a","l">> >>,
       << <<"c","o","h","e","r","e">>,                     <<"C","o","h","e","r","e">> >>,
       << <<"d","e","e","p","s","e","e","k">>,             <<"D","e","e","p","S","e","e","k">> >>,
       << <<"p","e","r","p","l","e","x","i","t","y">>,     <<"P","e","r","p","l","e","x","i","t","y">> >>,
       << <<"x","-","a","i">>,                             <<"x","A","I">> >>,
       << <<"a","m","a","z","o","n">>,                     <<"A","m","a","z","o","n">> >>,
       << <<"m","i","c","r","o","s","o","f","t">>,         <<"M","i","c","r","o","s","o","f","t">> >>,
       << <<"n","v","i","d","i","a">>,                     <<"N","V","I","D","I","A">> >>,
       << <<"q","w","e","n">>,                             <<"Q","w","e","n">> >>,
       << <<"m","o","o","n","s","h","o","t","a","i">>,     <<"M","o","o","n","s","h","o","t"," ","A","I">> >>,
       << <<"m","i","n","i","m","a","x">>,                 <<"M","i","n","i","M","a","x">> >>,
       << <<"z","-","a","i">>,                             <<"Z","-","A","I">> >> >>

ProviderKeys == {PROVIDER_MAP[i][1] : i \in DOMAIN PROVIDER_MAP}

\* the all-lower-case property names a plain object literal inherits from
\* Object.prototype; PROVIDER_MAP[slug] yields a truthy non-string for them
InheritedKeys == { <<"c","o","n","s","t","r","u","c","t","o","r">>,
                   <<"_","_","p","r","o","t","o","_","_">> }
\* the value extractProvider hands back for an inherited key: not a string
InheritedValue == <<"[object]">>

\* PROVIDER_MAP[providerSlug]; <<>> stands for undefined (falsy)
ProviderLookup(providerSlug) ==
    IF providerSlug \in ProviderKeys
    THEN PROVIDER_MAP[CHOOSE i \in DOMAIN PROVIDER_MAP : PROVIDER_MAP[i][1] = providerSlug][2]
    ELSE IF providerSlug \in InheritedKeys
         THEN InheritedValue
         ELSE <<>>

\* mutant: the table is consulted with the slug as written, not lower-cased
extractProvider_NoLower(modelId) ==
    LET parts == split(modelId, <<"/">>)
    IN  IF Len(parts) < 2
        THEN <<"U","n","k","n","o","w","n">>
        ELSE LET providerSlug == parts[1]
             IN  IF ProviderLookup(providerSlug) # <<>>
                 THEN ProviderLookup(providerSlug)
                 ELSE toUpperCase(charAt0(providerSlug)) \o slice1(providerSlug)

\* mutant: the guard parts.length < 2 is dropped
extractProvider_NoGuard(modelId) ==
    LET parts == split(modelId, <<"/">>)
        providerSlug == toLowerCase(parts[1])
    IN  IF ProviderLookup(providerSlug) # <<>>
        THEN ProviderLookup(providerSlug)
        ELSE toUpperCase(charAt0(providerSlug)) \o slice1(providerSlug)

extractProvider(modelId) ==
    LET parts == split(modelId, <<"/">>)
    IN  IF Len(parts) < 2
        THEN <<"U","n","k","n","o","w","n">>
        ELSE LET providerSlug == toLowerCase(parts[1])
             IN  IF ProviderLookup(providerSlug) # <<>>
                 THEN ProviderLookup(providerSlug)
                 ELSE toUpperCase(charAt0(providerSlug)) \o slice1(providerSlug)

\* ---- specification of one extractProvider invocation ----
\* model slugs that follow the provider segment
ModelSlugs == { <<>>, <<"g","p","t","-","4">>, <<"a","/","b">> }

\* ids: every short string over a small alphabet, the bare provider keys and
\* inherited names, and every case variant of a provider key before a '/'
ProviderIds ==
    StringsUpTo({"a", "Z", "-", "/"}, MaxLen)
    \cup ProviderKeys
    \cup InheritedKeys
    \cup {k \o <<"/">> \o m : k \in InheritedKeys, m \in ModelSlugs}
    \cup {v \o <<"/">> \o m : v \in UNION {CaseVariants(k) : k \in ProviderKeys}, m \in ModelSlugs}

InitProvider ==
    /\ fn = "extractProvider"
    /\ in \in [modelId : ProviderIds]
    /\ pc = "call"
    /\ out = Pending
    /\ idx = 0
    /\ bestMatch = 0
    /\ bestScore = <<0, 1>>
    /\ calls = <<>>
    /\ frames = <<>>
    /\ NoPage

ExtractProvider ==
    /\ fn = "extractProvider"
    /\ pc = "call"
    /\ out' = extractProvider(in.modelId)
    /\ pc' = "done"
    /\ UNCHANGED <<gallery, fn, in, idx, bestMatch, bestScore, calls, frames>>

NextProvider == ExtractProvider

SpecProvider == InitProvider /\ [][NextProvider]_vars

\* C9: for every id that contains no '/', extractProvider returns 'Unknown'
\* (the empty string and a bare provider slug included).
C9_NoSlashUnknown ==
    (fn = "extractProvider" /\ pc = "done" /\ "/" \notin Range(in.modelId))
        => out = <<"U","n","k","n","o","w","n">>

\* a bare known provider slug has been answered
C9_Witness ==
    /\ fn = "extractProvider" /\ pc = "done"
    /\ in.modelId = <<"o","p","e","n","a","i">>
    /\ out = <<"U","n","k","n","o","w","n">>

\* C10: for every key of PROVIDER_MAP and every case variant S of it,
\* extractProvider(S + '/' + slug) returns the display name mapped to the key.
C10_KnownSlugAnyCase ==
    (fn = "extractProvider" /\ pc = "done")
        => \A i \in DOMAIN PROVIDER_MAP :
             \A n \in 0..Len(in.modelId) :
                (/\ n = Len(PROVIDER_MAP[i][1]) + 1
                 /\ n <= Len(in.modelId)
                 /\ in.modelId[n] = "/"
                 /\ toLowerCase(SubSeq(in.modelId, 1, n - 1)) = PROVIDER_MAP[i][1])
                    => out = PROVIDER_MAP[i][2]

\* a mixed-case variant of a key has been answered with the mapped display name
C10_Witness ==
    /\ fn = "extractProvider" /\ pc = "done"
    /\ in.modelId = <<"M","e","T","a","-","L","l","a","m","a","/","g","p","t","-","4">>
    /\ out = <<"M","e","t","a">>

\* the part of the id before its first '/'
SlugOf(modelId) ==
    SubSeq(modelId, 1, (CHOOSE n \in DOMAIN modelId :
                           modelId[n] = "/" /\ \A m \in 1..(n - 1) : modelId[m] # "/") - 1)

\* the slug with its first character upper-cased and the rest unchanged
Capitalized(slug) == IF slug = <<>> THEN <<>> ELSE <<UpperChar(slug[1])>> \o Tail(slug)

\* C24: for every id that contains '/' and whose lower-cased first segment
\* is not a key of the provider table, extractProvider returns that segment
\* with its first character upper-cased and the rest unchanged, which is
\* never the raw lower-case slug itself.
C24_UnknownSlugCapitalized ==
    (fn = "extractProvider" /\ pc = "done" /\ "/" \in Range(in.modelId))
        => LET slug == toLowerCase(SlugOf(in.modelId))
           IN  slug \notin ProviderKeys
                  => /\ out = Capitalized(slug)
                     /\ out # slug

(***************************************************************************)
(* Capability Classifier.                                                  *)
(***************************************************************************)
\* bounds: longest capabilities / supportedParams list drawn
MaxList == 2

\* an argument that is not passed (undefined): a string, and a list of strings
Undefined == <<"undefined">>
UndefinedList == <<Undefined>>

\* x || ''
OrEmpty(x) == IF x = Undefined THEN <<>> ELSE x
\* x || []
OrEmptyList(x) == IF x = UndefinedList THEN <<>> ELSE x

\* array.some(pred) is written \E i \in DOMAIN array; array.map(toLowerCase):
mapLower(list) == [i \in DOMAIN list |-> toLowerCase(list[i])]

\* modality?.split('->')[0] || ''
inputPart(modality) ==
    IF modality = Undefined THEN <<>> ELSE split(modality, <<"-",">">>)[1]

\* modality?.split('->')[1] || ''
outputPart(modality) ==
    IF modality = Undefined
    THEN <<>>
    ELSE LET parts == split(modality, <<"-",">">>)
         IN  IF Len(parts) < 2 THEN <<>> ELSE parts[2]

\* mutant: 'image' is looked for on either side of the arrow
supportsVision_AnySide(modality) == includes(OrEmpty(modality), <<"i","m","a","g","e">>)

supportsVision(modality) == includes(inputPart(modality), <<"i","m","a","g","e">>)

supportsAudio(modality) == includes(inputPart(modality), <<"a","u","d","i","o">>)

\* mutant: an absent supportedParams counts as supporting tools (?? true)
supportsTools_DefaultTrue(supportedParams) ==
    IF supportedParams = UndefinedList
    THEN TRUE
    ELSE \E i \in DOMAIN supportedParams : supportedParams[i] = <<"t","o","o","l","s">>

supportsTools(supportedParams) ==
    IF supportedParams = UndefinedList
    THEN FALSE
    ELSE \E i \in DOMAIN supportedParams : supportedParams[i] = <<"t","o","o","l","s">>

imageGenKeywords ==
    << <<"i","m","a","g","e">>, <<"f","l","u","x">>, <<"d","a","l","l","-","e">>, <<"d","a","l","l","e">>, <<"s","t","a","b","l","e","-","d","i","f","f","u","s","i","o","n">>, <<"s","d","-">>, <<"s","d","x","l">>,
       <<"m","i","d","j","o","u","r","n","e","y">>, <<"i","m","a","g","e","n">>, <<"i","d","e","o","g","r","a","m">>, <<"p","l","a","y","g","r","o","u","n","d">>, <<"k","a","n","d","i","n","s","k","y">>,
       <<"d","r","e","a","m","s","h","a","p","e","r">>, <<"d","e","l","i","b","e","r","a","t","e">>, <<"p","r","o","t","e","u","s">>, <<"j","u","g","g","e","r","n","a","u","t">> >>

\* mutant: a non-empty capabilities list decides alone
supportsImageGeneration_CapsDecide(modality, modelId, modelName, capabilities) ==
    LET capLower == mapLower(OrEmptyList(capabilities))
        combined == toLowerCase(OrEmpty(modelName)) \o <<" ">> \o toLowerCase(OrEmpty(modelId))
    IN  IF capabilities # UndefinedList /\ Len(capabilities) > 0
        THEN \E i \in DOMAIN capLower : includes(capLower[i], <<"i","m","a","g","e">>)
        ELSE IF includes(outputPart(modality), <<"i","m","a","g","e">>)
             THEN TRUE
             ELSE \E k \in DOMAIN imageGenKeywords : includes(combined, imageGenKeywords[k])

supportsImageGeneration(modality, modelId, modelName, capabilities) ==
    LET capLower == mapLower(OrEmptyList(capabilities))
        combined == toLowerCase(OrEmpty(modelName)) \o <<" ">> \o toLowerCase(OrEmpty(modelId))
    IN  IF /\ capabilities # UndefinedList
           /\ Len(capabilities) > 0
           /\ \E i \in DOMAIN capLower :
                \/ includes(capLower[i], <<"i","m","a","g","e","-","g","e","n","e","r","a","t","i","o","n">>)
                \/ includes(capLower[i], <<"i","m","a","g","e">>)
                \/ capLower[i] = <<"i","m","a","g","e","s">>
        THEN TRUE
        ELSE IF includes(outputPart(modality), <<"i","m","a","g","e">>)
             THEN TRUE
             ELSE \E k \in DOMAIN imageGenKeywords : includes(combined, imageGenKeywords[k])

supportsFileInput(modality, supportedParams) ==
    \/ supportsVision(modality)
    \/ IF supportedParams = UndefinedList
       THEN FALSE
       ELSE \E i \in DOMAIN supportedParams : supportedParams[i] = <<"f","i","l","e">>

searchKeywords ==
    << <<"s","o","n","a","r">>, <<"p","e","r","p","l","e","x","i","t","y">>, <<"s","e","a","r","c","h">>, <<"w","e","b","-","s","e","a","r","c","h">>, <<"w","e","b"," ","s","e","a","r","c","h">>,
       <<"r","e","t","r","i","e","v","a","l">>, <<"b","r","o","w","s","e">> >>

\* mutant: the supportedParams test forgets 'retrieval'
supportsSearchCapability_ParamsNoRetrieval(modelId, modelName, capabilities, supportedParams) ==
    LET capValues == mapLower(OrEmptyList(capabilities))
        paramValues == mapLower(OrEmptyList(supportedParams))
        combined == toLowerCase(OrEmpty(modelId) \o <<" ">> \o OrEmpty(modelName))
    IN  IF \E i \in DOMAIN capValues :
              \/ includes(capValues[i], <<"s","e","a","r","c","h">>)
              \/ includes(capValues[i], <<"w","e","b">>)
              \/ includes(capValues[i], <<"r","e","t","r","i","e","v","a","l">>)
              \/ includes(capValues[i], <<"b","r","o","w","s","e">>)
        THEN TRUE
        ELSE IF \E i \in DOMAIN paramValues :
                   \/ includes(paramValues[i], <<"s","e","a","r","c","h">>)
                   \/ includes(paramValues[i], <<"w","e","b">>)
                   \/ includes(paramValues[i], <<"b","r","o","w","s","e">>)
             THEN TRUE
             ELSE \E k \in DOMAIN searchKeywords : includes(combined, searchKeywords[k])

supportsSearchCapability(modelId, modelName, capabilities, supportedParams) ==
    LET capValues == mapLower(OrEmptyList(capabilities))
        paramValues == mapLower(OrEmptyList(supportedParams))
        combined == toLowerCase(OrEmpty(modelId) \o <<" ">> \o OrEmpty(modelName))
    IN  IF \E i \in DOMAIN capValues :
              \/ includes(capValues[i], <<"s","e","a","r","c","h">>)
              \/ includes(capValues[i], <<"w","e","b">>)
              \/ includes(capValues[i], <<"r","e","t","r","i","e","v","a","l">>)
              \/ includes(capValues[i], <<"b","r","o","w","s","e">>)
        THEN TRUE
        ELSE IF \E i \in DOMAIN paramValues :
                   \/ includes(paramValues[i], <<"s","e","a","r","c","h">>)
                   \/ includes(paramValues[i], <<"w","e","b">>)
                   \/ includes(paramValues[i], <<"b","r","o","w","s","e">>)
                   \/ includes(paramValues[i], <<"r","e","t","r","i","e","v","a","l">>)
             THEN TRUE
             ELSE \E k \in DOMAIN searchKeywords : includes(combined, searchKeywords[k])

\* ---- specification of one capability-function invocation ----
\* every list of at most n entries
RECURSIVE ListsUpTo(_, _)
ListsUpTo(entries, n) ==
    IF n = 0
    THEN {<<>>}
    ELSE LET shorter == ListsUpTo(entries, n - 1)
         IN  shorter \cup {<<e>> \o l : e \in entries, l \in {t \in shorter : Len(t) = n - 1}}

Modalities ==
    { Undefined, <<>>, <<"t","e","x","t","-",">","t","e","x","t">>, <<"t","e","x","t","+","i","m","a","g","e","-",">","t","e","x","t">>, <<"t","e","x","t","-",">","i","m","a","g","e">>,
      <<"a","u","d","i","o","-",">","t","e","x","t">>, <<"i","m","a","g","e">>, <<"t","e","x","t","-",">","t","e","x","t","-",">","i","m","a","g","e">>, <<"T","e","x","t","+","I","m","a","g","e","-",">","T","e","x","t">> }

ToolParamLists ==
    {UndefinedList} \cup ListsUpTo({ <<"t","o","o","l","s">>, <<"T","o","o","l","s">>, <<"f","i","l","e">>, <<"p","r","o","f","i","l","e">> }, MaxList)

SearchParamLists ==
    {UndefinedList} \cup
    ListsUpTo({ <<"t","o","o","l","s">>, <<"w","e","b","_","f","e","t","c","h">>, <<"S","e","a","r","c","h">>, <<"R","E","T","R","I","E","V","A","L">>, <<"b","r","o","w","s","e">> }, MaxList)

SearchCapLists ==
    {UndefinedList} \cup
    ListsUpTo({ <<"s","e","a","r","c","h">>, <<"W","e","b">>, <<"r","e","t","r","i","e","v","a","l">>, <<"B","r","o","w","s","e","r">>, <<"v","i","s","i","o","n">> }, MaxList)

ImageCapLists ==
    {UndefinedList} \cup
    ListsUpTo({ <<"i","m","a","g","e">>, <<"I","m","a","g","e","-","G","e","n","e","r","a","t","i","o","n">>, <<"i","m","a","g","e","s">>, <<"v","i","s","i","o","n">> }, MaxList)

\* <<modelId, modelName>> pairs of catalog models
ModelIdNames ==
    { << <<"p","e","r","p","l","e","x","i","t","y","/","s","o","n","a","r","-","p","r","o">>, <<"S","o","n","a","r"," ","P","r","o">> >>,
      << <<"o","p","e","n","a","i","/","g","p","t","-","4","o">>, <<"G","P","T","-","4","o">> >>,
      << <<"o","p","e","n","a","i","/","g","p","t","-","4","o","-","s","e","a","r","c","h","-","p","r","e","v","i","e","w">>, <<"G","P","T","-","4","o"," ","S","e","a","r","c","h"," ","P","r","e","v","i","e","w">> >>,
      << <<"b","l","a","c","k","-","f","o","r","e","s","t","-","l","a","b","s","/","F","L","U","X",".","1">>, <<"F","l","u","x"," ","S","c","h","n","e","l","l">> >>,
      << <<"o","p","e","n","a","i","/","d","a","l","l","-","e","-","3">>, <<"D","A","L","L","-","E"," ","3">> >>,
      << <<"a","c","m","e","/","w","e","b">>, <<"s","e","a","r","c","h">> >>,
      << <<"s","o">>, <<"n","a","r">> >>,
      << <<>>, <<>> >>,
      << Undefined, Undefined >> }

\* ids and names called with no other argument: short strings and catalog ones
BareStrings ==
    StringsUpTo({"s", "d", "-"}, MaxLen)
    \cup {p[1] : p \in ModelIdNames} \cup {p[2] : p \in ModelIdNames}

Args(id, name, m, p, c) ==
    [modelId |-> id, modelName |-> name, modality |-> m, supportedParams |-> p, capabilities |-> c]

InitCaps ==
    /\ pc = "call"
    /\ out = Pending
    /\ idx = 0
    /\ bestMatch = 0
    /\ bestScore = <<0, 1>>
    /\ calls = <<>>
    /\ frames = <<>>
    /\ NoPage
    /\ \/ /\ fn \in {"supportsVision", "supportsAudio"}
          /\ in \in {Args(Undefined, Undefined, m, UndefinedList, UndefinedList) : m \in Modalities}
       \/ /\ fn = "supportsTools"
          /\ in \in {Args(Undefined, Undefined, Undefined, p, UndefinedList) : p \in ToolParamLists}
       \/ /\ fn = "supportsFileInput"
          /\ in \in {Args(Undefined, Undefined, m, p, UndefinedList) :
                        m \in Modalities, p \in ToolParamLists}
       \/ /\ fn = "supportsImageGeneration"
          /\ in \in {Args(n[1], n[2], m, UndefinedList, c) :
                        n \in ModelIdNames, m \in Modalities, c \in ImageCapLists}
       \/ /\ fn = "supportsSearchCapability"
          /\ in \in {Args(n[1], n[2], Undefined, p, c) :
                        n \in ModelIdNames, p \in SearchParamLists, c \in SearchCapLists}
       \/ /\ fn \in {"supportsImageGeneration", "supportsSearchCapability"}
          /\ in \in {Args(id, name, Undefined, UndefinedList, UndefinedList) :
                        id \in BareStrings, name \in BareStrings}

Return(value) ==
    /\ pc = "call"
    /\ out' = value
    /\ pc' = "done"
    /\ UNCHANGED <<gallery, fn, in, idx, bestMatch, bestScore, calls, frames>>

SupportsVision == fn = "supportsVision" /\ Return(supportsVision(in.modality))

SupportsAudio == fn = "supportsAudio" /\ Return(supportsAudio(in.modality))

SupportsTools == fn = "supportsTools" /\ Return(supportsTools(in.supportedParams))

SupportsImageGeneration ==
    /\ fn = "supportsImageGeneration"
    /\ Return(supportsImageGeneration(in.modality, in.modelId, in.modelName, in.capabilities))

SupportsFileInput ==
    /\ fn = "supportsFileInput"
    /\ Return(supportsFileInput(in.modality, in.supportedParams))

SupportsSearchCapability ==
    /\ fn = "supportsSearchCapability"
    /\ Return(supportsSearchCapability(in.modelId, in.modelName, in.capabilities, in.supportedParams))

NextCaps ==
    \/ SupportsVision
    \/ SupportsAudio
    \/ SupportsTools
    \/ SupportsImageGeneration
    \/ SupportsFileInput
    \/ SupportsSearchCapability

SpecCaps == InitCaps /\ [][NextCaps]_vars

CapabilityFns ==
    {"supportsVision", "supportsAudio", "supportsTools", "supportsImageGeneration",
     "supportsFileInput", "supportsSearchCapability"}

\* a capability function was called with modality, supportedParams and
\* capabilities all absent, and has returned
OnlyIdAndName ==
    /\ fn \in CapabilityFns /\ pc = "done"
    /\ in.modality = Undefined
    /\ in.supportedParams = UndefinedList
    /\ in.capabilities = UndefinedList

\* C7 as stated: with only modelId and modelName given, each of the six
\* flags is false, whatever the id and the name are.
C7_AllFlagsFalse == OnlyIdAndName => out = FALSE

\* C7 amended: with only modelId and modelName given, supportsVision,
\* supportsAudio, supportsTools and supportsFileInput are false;
\* supportsImageGeneration is true exactly when lower-cased name + ' ' + id
\* contains an image keyword, and supportsSearchCapability exactly when
\* lower-cased id + ' ' + name contains a search keyword.
C7_FlagsFalseUnlessKeyword ==
    OnlyIdAndName =>
        /\ fn \in {"supportsVision", "supportsAudio", "supportsTools", "supportsFileInput"}
              => out = FALSE
        /\ fn = "supportsImageGeneration"
              => out = (\E k \in Range(imageGenKeywords) :
                          includes(toLowerCase(OrEmpty(in.modelName) \o <<" ">> \o OrEmpty(in.modelId)), k))
        /\ fn = "supportsSearchCapability"
              => out = (\E k \in Range(searchKeywords) :
                          includes(toLowerCase(OrEmpty(in.modelId) \o <<" ">> \o OrEmpty(in.modelName)), k))

\* supportsSearchCapability, called with the id and name of a model that
\* carries no search keyword and nothing else, has answered false
C7_Witness ==
    /\ OnlyIdAndName
    /\ fn = "supportsSearchCapability"
    /\ in.modelId = <<"o","p","e","n","a","i","/","g","p","t","-","4","o">>
    /\ in.modelName = <<"G","P","T","-","4","o">>
    /\ out = FALSE

Arrows(modality) ==
    {i \in 1..(Len(modality) - 1) : modality[i] = "-" /\ modality[i + 1] = ">"}

\* the text from position from up to the next arrow, or to the end
UpToArrow(modality, from) ==
    LET later == {i \in Arrows(modality) : i >= from}
    IN  IF later = {}
        THEN SubSeq(modality, from, Len(modality))
        ELSE SubSeq(modality, from, (CHOOSE i \in later : \A j \in later : i <= j) - 1)

\* the input types: what stands left of the first arrow
InputSide(modality) ==
    IF modality = Undefined THEN <<>> ELSE UpToArrow(modality, 1)

\* the output types: what stands right of the first arrow (up to a second
\* one, should the string have it); nothing when there is no arrow
OutputSide(modality) ==
    IF modality = Undefined \/ Arrows(modality) = {}
    THEN <<>>
    ELSE UpToArrow(modality, (CHOOSE i \in Arrows(modality) : \A j \in Arrows(modality) : i <= j) + 2)

\* the fixed image keywords
ImageKeywords ==
    { <<"i","m","a","g","e">>, <<"f","l","u","x">>, <<"d","a","l","l","-","e">>, <<"d","a","l","l","e">>, <<"s","t","a","b","l","e","-","d","i","f","f","u","s","i","o","n">>, <<"s","d","-">>, <<"s","d","x","l">>,
      <<"m","i","d","j","o","u","r","n","e","y">>, <<"i","m","a","g","e","n">>, <<"i","d","e","o","g","r","a","m">>, <<"p","l","a","y","g","r","o","u","n","d">>, <<"k","a","n","d","i","n","s","k","y">>,
      <<"d","r","e","a","m","s","h","a","p","e","r">>, <<"d","e","l","i","b","e","r","a","t","e">>, <<"p","r","o","t","e","u","s">>, <<"j","u","g","g","e","r","n","a","u","t">> }

NamesImageKeyword(modelId, modelName) ==
    \E k \in ImageKeywords :
        \/ includes(toLowerCase(OrEmpty(modelName)), k)
        \/ includes(toLowerCase(OrEmpty(modelId)), k)

ImageGenerationCalled == fn = "supportsImageGeneration" /\ pc = "done"

HasFileParam(supportedParams) ==
    supportedParams # UndefinedList /\ <<"f","i","l","e">> \in Range(supportedParams)

\* C26: supportsVision is true exactly when the part of the modality left of
\* the first '->' contains 'image' (false for 'image' on the output side
\* only, and for an absent or empty modality); supportsFileInput is true
\* exactly when supportsVision is or supportedParams contains 'file'.
C26_VisionFromInputSide ==
    /\ (fn = "supportsVision" /\ pc = "done")
          => /\ out = includes(InputSide(in.modality), <<"i","m","a","g","e">>)
             /\ in.modality \in {Undefined, <<>>} => out = FALSE
    /\ (fn = "supportsFileInput" /\ pc = "done")
          => out = ( \/ includes(InputSide(in.modality), <<"i","m","a","g","e">>)
                     \/ HasFileParam(in.supportedParams) )

\* a modality with 'image' on its output side only, with a parameter that
\* merely contains 'file', was found to take no file input
C26_Witness ==
    /\ fn = "supportsFileInput" /\ pc = "done"
    /\ in.modality = <<"t","e","x","t","-",">","i","m","a","g","e">>
    /\ in.supportedParams = << <<"p","r","o","f","i","l","e">> >>
    /\ out = FALSE

(***************************************************************************)
(* Benchmark Matcher.                                                      *)
(*                                                                         *)
(* A score is the rational <<numerator, denominator>> (denominator > 0)    *)
(* of the JavaScript number: matches / maxTokens, times 6/5 for the 1.2    *)
(* creator boost.  The thresholds drawn are ones whose equality with a     *)
(* reachable score is exact in IEEE doubles too (k/2 and 1.2 * k/2).       *)
(***************************************************************************)
\* bound: longest benchmark list drawn
MaxRecords == 3

Gt(a, b) == a[1] * b[2] > b[1] * a[2]
Ge(a, b) == a[1] * b[2] >= b[1] * a[2]
Eq(a, b) == a[1] * b[2] = b[1] * a[2]
Zero == <<0, 1>>

Whitespace == {" ", "\t", "\n"}
AlnumLower == Range(LowerAlpha) \cup Digits

\* .replace(/\s+/g, ' '): every run of whitespace becomes one space
RECURSIVE collapseSpaces(_)
collapseSpaces(s) ==
    IF s = <<>>
    THEN <<>>
    ELSE IF Head(s) \in Whitespace
         THEN IF Len(s) > 1 /\ s[2] \in Whitespace
              THEN collapseSpaces(Tail(s))
              ELSE <<" ">> \o collapseSpaces(Tail(s))
         ELSE <<Head(s)>> \o collapseSpaces(Tail(s))

\* .trim()
trim(s) ==
    LET inked == {i \in DOMAIN s : s[i] \notin Whitespace}
    IN  IF inked = {}
        THEN <<>>
        ELSE SubSeq(s, CHOOSE i \in inked : \A j \in inked : i <= j,
                       CHOOSE i \in inked : \A j \in inked : i >= j)

normalizeForMatch(str) ==
    LET lowered == toLowerCase(str)
        replaced == [i \in DOMAIN lowered |->
                        IF lowered[i] \in AlnumLower \cup Whitespace THEN lowered[i] ELSE " "]
    IN  trim(collapseSpaces(replaced))

stopWords ==
    { <<"a","i">>, <<"m","o","d","e","l">>, <<"v","1">>, <<"f","r","e","e">>, <<"p","r","o">>, <<"p","l","u","s">>, <<"c","h","a","t">>, <<"i","n","s","t","r","u","c","t">>, <<"p","r","e","v","i","e","w">> }

\* mutant: stop words are kept as tokens
keepToken_LengthOnly(token) == Len(token) > 1

keepToken(token) == Len(token) > 1 /\ token \notin stopWords

extractModelTokens(name) ==
    SelectSeq(split(normalizeForMatch(name), <<" ">>), keepToken)

\* mutant: the matched count is divided by the sum of the two token counts
calculateSimilarity_SumTokens(name1, name2) ==
    LET tokens1 == extractModelTokens(name1)
        tokens2 == extractModelTokens(name2)
        matched == {i \in DOMAIN tokens1 :
                      \E j \in DOMAIN tokens2 :
                         \/ tokens1[i] = tokens2[j]
                         \/ includes(tokens1[i], tokens2[j])
                         \/ includes(tokens2[j], tokens1[i])}
    IN  IF Len(tokens1) = 0 \/ Len(tokens2) = 0
        THEN Zero
        ELSE <<Cardinality(matched), Len(tokens1) + Len(tokens2)>>

\* mutant: the matched count is divided by the smaller of the two token counts
calculateSimilarity_MinTokens(name1, name2) ==
    LET tokens1 == extractModelTokens(name1)
        tokens2 == extractModelTokens(name2)
        matched == {i \in DOMAIN tokens1 :
                      \E j \in DOMAIN tokens2 :
                         \/ tokens1[i] = tokens2[j]
                         \/ includes(tokens1[i], tokens2[j])
                         \/ includes(tokens2[j], tokens1[i])}
        minTokens == IF Len(tokens1) <= Len(tokens2) THEN Len(tokens1) ELSE Len(tokens2)
    IN  IF Len(tokens1) = 0 \/ Len(tokens2) = 0
        THEN Zero
        ELSE <<Cardinality(matched), minTokens>>

\* mutant: the inner loop has no break, every matching pair is counted
calculateSimilarity_NoBreak(name1, name2) ==
    LET tokens1 == extractModelTokens(name1)
        tokens2 == extractModelTokens(name2)
        pairs == {p \in (DOMAIN tokens1) \X (DOMAIN tokens2) :
                     \/ tokens1[p[1]] = tokens2[p[2]]
                     \/ includes(tokens1[p[1]], tokens2[p[2]])
                     \/ includes(tokens2[p[2]], tokens1[p[1]])}
        maxTokens == IF Len(tokens1) >= Len(tokens2) THEN Len(tokens1) ELSE Len(tokens2)
    IN  IF Len(tokens1) = 0 \/ Len(tokens2) = 0
        THEN Zero
        ELSE <<Cardinality(pairs), maxTokens>>

\* the for/for/break loops count the tokens of name1 that have a partner
calculateSimilarity(name1, name2) ==
    LET tokens1 == extractModelTokens(name1)
        tokens2 == extractModelTokens(name2)
        matched == {i \in DOMAIN tokens1 :
                      \E j \in DOMAIN tokens2 :
                         \/ tokens1[i] = tokens2[j]
                         \/ includes(tokens1[i], tokens2[j])
                         \/ includes(tokens2[j], tokens1[i])}
        maxTokens == IF Len(tokens1) >= Len(tokens2) THEN Len(tokens1) ELSE Len(tokens2)
    IN  IF Len(tokens1) = 0 \/ Len(tokens2) = 0
        THEN Zero
        ELSE <<Cardinality(matched), maxTokens>>

\* const provider = modelId.split('/')[0]?.toLowerCase() || ''
matchProvider(modelId) == toLowerCase(split(modelId, <<"/">>)[1])

\* mutant: only the creator is searched for the provider, not the provider
\* for the creator
creatorMatch_OneWay(provider, benchmark) ==
    includes(toLowerCase(benchmark.creator), provider)

\* creatorMatch of one loop iteration
creatorMatch(provider, benchmark) ==
    LET creatorLower == toLowerCase(benchmark.creator)
    IN  includes(creatorLower, provider) \/ includes(provider, creatorLower)

\* score of one loop iteration
benchmarkScore(provider, modelName, benchmark) ==
    LET nameSimilarity == calculateSimilarity(modelName, benchmark.modelName)
    IN  IF creatorMatch(provider, benchmark)
        THEN <<nameSimilarity[1] * 6, nameSimilarity[2] * 5>>
        ELSE nameSimilarity

\* mutant: a score equal to the best so far replaces it
replacesBest_OnTie(score, best, minMatchThreshold) ==
    Ge(score, best) /\ Ge(score, minMatchThreshold)

\* mutant: the threshold must be exceeded, not just met
replacesBest_AboveThreshold(score, best, minMatchThreshold) ==
    Gt(score, best) /\ Gt(score, minMatchThreshold)

\* mutant: either test suffices (|| for &&)
replacesBest_EitherTest(score, best, minMatchThreshold) ==
    Gt(score, best) \/ Ge(score, minMatchThreshold)

\* if (score > bestScore && score >= minMatchThreshold)
replacesBest(score, best, minMatchThreshold) ==
    Gt(score, best) /\ Ge(score, minMatchThreshold)

\* ---- specification of one matchBenchmark invocation ----
Benchmark(name, creator) == [modelName |-> name, creator |-> creator]

BenchmarkPool ==
    { Benchmark(<<"C","l","a","u","d","e"," ","H","a","i","k","u"," ","4",".","5">>, <<"A","n","t","h","r","o","p","i","c">>),
      Benchmark(<<"c","l","a","u","d","e","-","h","a","i","k","u">>, <<"A","n","t","h","r","o","p","i","c">>),
      Benchmark(<<"C","l","a","u","d","e"," ","S","o","n","n","e","t"," ","4",".","5">>, <<"A","n","t","h","r","o","p","i","c">>),
      Benchmark(<<"C","l","a","u","d","e"," ","H","a","i","k","u"," ","4",".","5">>, <<"O","p","e","n","A","I">>),
      Benchmark(<<"G","P","T","-","4","o"," ","m","i","n","i">>, <<"O","p","e","n","A","I">>),
      Benchmark(<<"P","r","o">>, <<"A","n","t","h","r","o","p","i","c">>) }

\* <<modelId, modelName>> of the target model
MatchTargets ==
    { << <<"a","n","t","h","r","o","p","i","c","/","c","l","a","u","d","e","-","h","a","i","k","u","-","4",".","5">>, <<"C","l","a","u","d","e"," ","H","a","i","k","u"," ","4",".","5">> >>,
      << <<"o","p","e","n","a","i","/","g","p","t","-","4","o">>, <<"G","P","T","-","4","o">> >>,
      << <<"c","l","a","u","d","e","-","h","a","i","k","u">>, <<"C","l","a","u","d","e"," ","H","a","i","k","u">> >>,
      << <<>>, <<"C","l","a","u","d","e">> >>,
      << <<"A","n","t","h","r","o","p","i","c","/","x">>, <<"C","h","a","t"," ","P","r","o">> >> }

DefaultThreshold == <<1, 2>>

Thresholds == { <<0 - 1, 2>>, Zero, DefaultThreshold, <<6, 5>> }

\* names in which a token repeats or is contained in another one
TokenNames == { <<"Q","w","e","n"," ","Q","w","e","n","2">>, <<"Q","w","e","n","2"," ","Q","w","e","n","2",".","5">>, <<"Q","w","e","n","2"," ","C","o","d","e","r">> }

\* names for the single-record lists: short strings, the pool's names and
\* the names with repeated tokens
ShortNames ==
    StringsUpTo({"a", "A", "-"}, MaxLen)
    \cup {b.modelName : b \in BenchmarkPool} \cup {t[2] : t \in MatchTargets}
    \cup TokenNames

\* <<modelId, creator>> for the single-record lists: the creator holds the
\* provider, the provider is the whole id and sits in the creator, no overlap
SingleIdCreators ==
    { << <<"a","n","t","h","r","o","p","i","c","/","c","l","a","u","d","e","-","h","a","i","k","u","-","4",".","5">>,
         <<"A","n","t","h","r","o","p","i","c">> >>,
      << <<"a">>, <<"B","a">> >>,
      << <<"a","n","t","h","r","o","p","i","c","/","c","l","a","u","d","e","-","h","a","i","k","u","-","4",".","5">>,
         <<"B","a">> >> }

MatchArgs(id, name, list, threshold) ==
    [modelId |-> id, modelName |-> name, benchmarks |-> list, minMatchThreshold |-> threshold]

\* the calls with a single record: every pair of short names, at the
\* default threshold
SingleRecordArgs ==
    {MatchArgs(ic[1], name, <<Benchmark(rname, ic[2])>>, DefaultThreshold) :
        ic \in SingleIdCreators, name \in ShortNames, rname \in ShortNames}

InitMatch ==
    /\ fn = "matchBenchmark"
    /\ pc = "call"
    /\ out = Pending
    /\ idx = 0
    /\ bestMatch = 0
    /\ bestScore = Zero
    /\ calls = <<>>
    /\ frames = <<>>
    /\ NoPage
    /\ \/ in \in {MatchArgs(t[1], t[2], list, th) :
                    t \in MatchTargets, list \in ListsUpTo(BenchmarkPool, MaxRecords),
                    th \in Thresholds}
       \/ in \in SingleRecordArgs

\* if (!benchmarks.length) return undefined
MatchEmpty ==
    /\ fn = "matchBenchmark"
    /\ pc = "call"
    /\ Len(in.benchmarks) = 0
    /\ out' = 0
    /\ pc' = "done"
    /\ UNCHANGED <<gallery, fn, in, idx, bestMatch, bestScore, calls, frames>>

\* let bestMatch; let bestScore = 0; and the loop is entered
MatchBegin ==
    /\ fn = "matchBenchmark"
    /\ pc = "call"
    /\ Len(in.benchmarks) > 0
    /\ idx' = 0
    /\ bestMatch' = 0
    /\ bestScore' = Zero
    /\ pc' = "loop"
    /\ UNCHANGED <<gallery, fn, in, out, calls, frames>>

\* one iteration of for (const benchmark of benchmarks)
MatchIterate ==
    /\ fn = "matchBenchmark"
    /\ pc = "loop"
    /\ idx < Len(in.benchmarks)
    /\ LET benchmark == in.benchmarks[idx + 1]
           score == benchmarkScore(matchProvider(in.modelId), in.modelName, benchmark)
       IN  IF replacesBest(score, bestScore, in.minMatchThreshold)
           THEN bestScore' = score /\ bestMatch' = idx + 1
           ELSE UNCHANGED <<bestScore, bestMatch>>
    /\ idx' = idx + 1
    /\ UNCHANGED <<gallery, fn, in, pc, out, calls, frames>>

\* return bestMatch
MatchReturn ==
    /\ fn = "matchBenchmark"
    /\ pc = "loop"
    /\ idx = Len(in.benchmarks)
    /\ out' = bestMatch
    /\ pc' = "done"
    /\ UNCHANGED <<gallery, fn, in, idx, bestMatch, bestScore, calls, frames>>

NextMatch == MatchEmpty \/ MatchBegin \/ MatchIterate \/ MatchReturn

SpecMatch == InitMatch /\ [][NextMatch]_vars

\* ---- specification of one matchBenchmark invocation, for the scores ----
\* the targets, and one whose provider contains a creator of the pool
ScoreTargets == MatchTargets \cup { << <<"o","p","e","n","a","i","-","l","a","b","s","/","g","p","t","-","4","o">>, <<"G","P","T","-","4","o">> >> }

\* every target against every short list of the pool at the default
\* threshold, and the single-record calls
InitScore ==
    /\ fn = "matchBenchmark"
    /\ pc = "call"
    /\ out = Pending
    /\ idx = 0
    /\ bestMatch = 0
    /\ bestScore = Zero
    /\ calls = <<>>
    /\ frames = <<>>
    /\ NoPage
    /\ \/ in \in {MatchArgs(t[1], t[2], list, DefaultThreshold) :
                    t \in ScoreTargets, list \in ListsUpTo(BenchmarkPool, MaxList)}
       \/ in \in SingleRecordArgs

SpecScore == InitScore /\ [][NextMatch]_vars

\* ---- specification of one matchBenchmark invocation, for the thresholds ----
\* every target against every list of the pool, at every threshold
InitThreshold ==
    /\ fn = "matchBenchmark"
    /\ pc = "call"
    /\ out = Pending
    /\ idx = 0
    /\ bestMatch = 0
    /\ bestScore = Zero
    /\ calls = <<>>
    /\ frames = <<>>
    /\ NoPage
    /\ in \in {MatchArgs(t[1], t[2], list, th) :
                 t \in MatchTargets, list \in ListsUpTo(BenchmarkPool, MaxRecords),
                 th \in Thresholds}

SpecThreshold == InitThreshold /\ [][NextMatch]_vars

\* matchBenchmark has returned; out is the position of the returned record
\* in benchmarks, 0 for undefined
Matched == fn = "matchBenchmark" /\ pc = "done"

\* the score the code gives the record at position i
ScoreAt(i) == benchmarkScore(matchProvider(in.modelId), in.modelName, in.benchmarks[i])

\* the scores of the first n records, in list order
RECURSIVE ScoresUpTo(_)
ScoresUpTo(n) == IF n = 0 THEN <<>> ELSE Append(ScoresUpTo(n - 1), ScoreAt(n))

\* C1 as stated: no match is returned if and only if no record scores at or
\* above the threshold, whatever the threshold (0 and negative included).
C1_NoMatchIffNoneMeets ==
    Matched =>
        LET scores == ScoresUpTo(Len(in.benchmarks))
        IN  (out = 0) <=> ~ \E i \in DOMAIN scores : Ge(scores[i], in.minMatchThreshold)

\* C1 amended: no match is returned if and only if no record has a score
\* that is above 0 and at or above the threshold; so for every threshold
\* above 0, if and only if no record scores at or above the threshold.
C1_NoMatchIffNonePositiveMeets ==
    Matched =>
        LET scores == ScoresUpTo(Len(in.benchmarks))
        IN  /\ (out = 0) <=> ~ \E i \in DOMAIN scores :
                                  Gt(scores[i], Zero) /\ Ge(scores[i], in.minMatchThreshold)
            /\ Gt(in.minMatchThreshold, Zero) =>
                  ((out = 0) <=> ~ \E i \in DOMAIN scores : Ge(scores[i], in.minMatchThreshold))

\* a record exactly at the default threshold has been returned
C1_Witness ==
    /\ Matched
    /\ in.minMatchThreshold = DefaultThreshold
    /\ Len(in.benchmarks) = 2
    /\ out = 2
    /\ Eq(ScoreAt(2), DefaultThreshold)
    /\ ~ Ge(ScoreAt(1), DefaultThreshold)

\* C2 as stated: when some record scores at or above the threshold, the
\* record returned has the highest score of the list and is the first of
\* the records that have it.
C2_FirstHighest ==
    Matched =>
        LET scores == ScoresUpTo(Len(in.benchmarks))
        IN  (\E i \in DOMAIN scores : Ge(scores[i], in.minMatchThreshold)) =>
                /\ out \in DOMAIN scores
                /\ \A j \in DOMAIN scores : Ge(scores[out], scores[j])
                /\ \A j \in 1..(out - 1) : Gt(scores[out], scores[j])

\* C2 amended: when some record has a score above 0 and at or above the
\* threshold, the record returned has the highest score of the list and is
\* the first of the records that have it.
C2_FirstHighestPositive ==
    Matched =>
        LET scores == ScoresUpTo(Len(in.benchmarks))
        IN  (\E i \in DOMAIN scores : Gt(scores[i], Zero) /\ Ge(scores[i], in.minMatchThreshold)) =>
                /\ out \in DOMAIN scores
                /\ \A j \in DOMAIN scores : Ge(scores[out], scores[j])
                /\ \A j \in 1..(out - 1) : Gt(scores[out], scores[j])

\* the first of two records with the same highest score has been returned,
\* after a record with a lower score
C2_Witness ==
    /\ Matched
    /\ Len(in.benchmarks) = 3
    /\ out = 2
    /\ Eq(ScoreAt(2), ScoreAt(3))
    /\ Gt(ScoreAt(2), ScoreAt(1))
    /\ Gt(ScoreAt(1), Zero)

\* C3: a target whose name yields the same non-empty token list as the only
\* record's modelName gets that record at the default threshold 0.5, with
\* score 1, or 1.2 when the record's creator contains the target provider.
C3_SameTokensMatch ==
    (/\ Matched
     /\ Len(in.benchmarks) = 1
     /\ in.minMatchThreshold = DefaultThreshold
     /\ extractModelTokens(in.modelName) # <<>>
     /\ extractModelTokens(in.modelName) = extractModelTokens(in.benchmarks[1].modelName)) =>
        /\ out = 1
        /\ Eq(bestScore, <<1, 1>>) \/ Eq(bestScore, <<6, 5>>)
        /\ includes(toLowerCase(in.benchmarks[1].creator), matchProvider(in.modelId))
              => Eq(bestScore, <<6, 5>>)

\* the parse-match test: 'Claude Haiku 4.5' against the Anthropic record
C3_Witness ==
    /\ Matched
    /\ in.modelId = <<"a","n","t","h","r","o","p","i","c","/","c","l","a","u","d","e","-","h","a","i","k","u","-","4",".","5">>
    /\ in.modelName = <<"C","l","a","u","d","e"," ","H","a","i","k","u"," ","4",".","5">>
    /\ in.benchmarks = <<Benchmark(<<"C","l","a","u","d","e"," ","H","a","i","k","u"," ","4",".","5">>, <<"A","n","t","h","r","o","p","i","c">>)>>
    /\ in.minMatchThreshold = DefaultThreshold
    /\ out = 1
    /\ Eq(bestScore, <<6, 5>>)

\* the text before the first '/' of modelId lower-cased, empty when modelId
\* contains no '/'
ProviderBeforeSlash(modelId) ==
    IF \E i \in DOMAIN modelId : modelId[i] = "/"
    THEN toLowerCase(SubSeq(modelId, 1, (CHOOSE i \in DOMAIN modelId :
                                            modelId[i] = "/" /\ \A j \in 1..(i - 1) : modelId[j] # "/") - 1))
    ELSE <<>>

\* matchBenchmark is past the line that derives provider
ProviderDerived == fn = "matchBenchmark" /\ pc \in {"loop", "done"} /\ Len(in.benchmarks) > 0

\* C16: matchBenchmark derives the target provider as the lower-cased text
\* before the first '/' of modelId, and as the empty string when modelId
\* contains no '/'.
C16_ProviderBeforeFirstSlash ==
    ProviderDerived => matchProvider(in.modelId) = ProviderBeforeSlash(in.modelId)

\* the creator of record i lower-cased contains the provider, or the
\* provider contains it
CreatorHoldsProvider(i) ==
    \/ includes(toLowerCase(in.benchmarks[i].creator), matchProvider(in.modelId))
    \/ includes(matchProvider(in.modelId), toLowerCase(in.benchmarks[i].creator))

\* the name similarity of record i
SimilarityAt(i) == calculateSimilarity(in.modelName, in.benchmarks[i].modelName)

\* score is similarity times 1.2 when boosted, the similarity itself when not
IsScoreOf(score, similarity, boosted) ==
    IF boosted
    THEN score[1] * similarity[2] * 5 = similarity[1] * 6 * score[2]
    ELSE Eq(score, similarity)

\* C17: a record's score is its name similarity times 1.2 exactly when the
\* record's lower-cased creator contains the target provider string or the
\* provider string contains the lower-cased creator, and the unboosted
\* similarity in every other case.
C17_BoostOnCreatorMatch ==
    Matched =>
        LET scores == ScoresUpTo(Len(in.benchmarks))
        IN  /\ \A i \in DOMAIN scores : IsScoreOf(scores[i], SimilarityAt(i), CreatorHoldsProvider(i))
            /\ out # 0 => Eq(bestScore, scores[out])

\* a record whose creator 'openai' is contained in the provider 'openai-labs'
\* (and does not contain it) has been returned with 2/3 * 1.2
C17_Witness ==
    /\ Matched
    /\ in.modelId = <<"o","p","e","n","a","i","-","l","a","b","s","/","g","p","t","-","4","o">>
    /\ Len(in.benchmarks) = 1
    /\ in.benchmarks[1] = Benchmark(<<"G","P","T","-","4","o"," ","m","i","n","i">>, <<"O","p","e","n","A","I">>)
    /\ out = 1
    /\ Eq(bestScore, <<4, 5>>)

\* the tokens of tokens1 that have a partner in tokens2: an equal token, one
\* that contains it or one it contains; each token of tokens1 counts once
RECURSIVE CountPartnered(_, _)
CountPartnered(tokens1, tokens2) ==
    IF tokens1 = <<>>
    THEN 0
    ELSE (IF \E j \in DOMAIN tokens2 :
                \/ Head(tokens1) = tokens2[j]
                \/ includes(tokens2[j], Head(tokens1))
                \/ includes(Head(tokens1), tokens2[j])
          THEN 1 ELSE 0) + CountPartnered(Tail(tokens1), tokens2)

Larger(a, b) == IF a >= b THEN a ELSE b

\* similarity is the partnered tokens of tokens1 over the larger token count
IsPartneredOverLarger(similarity, tokens1, tokens2) ==
    /\ similarity[2] # 0
    /\ Eq(similarity, <<CountPartnered(tokens1, tokens2), Larger(Len(tokens1), Len(tokens2))>>)

\* the same, for two token lists that are both non-empty
IsPartneredOrEmpty(similarity, tokens1, tokens2) ==
    (tokens1 # <<>> /\ tokens2 # <<>>) => IsPartneredOverLarger(similarity, tokens1, tokens2)

\* C18: for two names with non-empty token lists the similarity is the
\* number of tokens of the first name that have an equal, containing or
\* contained token in the second name, each counted at most once, divided
\* by the larger of the two token counts.
C18_PartneredOverLarger ==
    Matched =>
        LET tokens1 == extractModelTokens(in.modelName)
        IN  \A i \in DOMAIN in.benchmarks :
                IsPartneredOrEmpty(SimilarityAt(i), tokens1, extractModelTokens(in.benchmarks[i].modelName))

\* 'GPT-4o' against 'GPT-4o mini': two of two tokens have a partner, the
\* larger count is three, and the record is returned with 2/3 * 1.2
C18_Witness ==
    /\ Matched
    /\ in.modelId = <<"o","p","e","n","a","i","/","g","p","t","-","4","o">>
    /\ in.modelName = <<"G","P","T","-","4","o">>
    /\ in.benchmarks = << Benchmark(<<"G","P","T","-","4","o"," ","m","i","n","i">>, <<"O","p","e","n","A","I">>) >>
    /\ in.minMatchThreshold = DefaultThreshold
    /\ out = 1
    /\ Eq(bestScore, <<4, 5>>)

\* the stop words as the claim lists them
ListedStopWords ==
    { <<"a","i">>, <<"m","o","d","e","l">>, <<"v","1">>, <<"f","r","e","e">>, <<"p","r","o">>, <<"p","l","u","s">>, <<"c","h","a","t">>, <<"i","n","s","t","r","u","c","t">>, <<"p","r","e","v","i","e","w">> }

\* every token of the list is lower-case alphanumeric, at least two
\* characters long and no stop word
TokensClean(tokens) ==
    \A k \in DOMAIN tokens :
        /\ Len(tokens[k]) >= 2
        /\ \A c \in Range(tokens[k]) : c \in Range(LowerAlpha) \cup Digits
        /\ tokens[k] \notin ListedStopWords

\* the similarity is 0 when one of the token lists is empty
ZeroWhenEmpty(similarity, tokens1, tokens2) ==
    (tokens1 = <<>> \/ tokens2 = <<>>) => similarity[1] = 0 /\ similarity[2] # 0

\* C19: every token the matcher extracts from a name is a lower-case
\* alphanumeric string of length at least 2 that is not a stop word; when
\* either of the two names yields no such token the similarity is 0.
C19_TokensCleanOrZero ==
    Matched =>
        LET tokens1 == extractModelTokens(in.modelName)
        IN  /\ TokensClean(tokens1)
            /\ \A i \in DOMAIN in.benchmarks :
                  /\ TokensClean(extractModelTokens(in.benchmarks[i].modelName))
                  /\ ZeroWhenEmpty(SimilarityAt(i), tokens1, extractModelTokens(in.benchmarks[i].modelName))

\* 'Chat Pro' is stop words only: against the record 'Pro' it yields no
\* token and no match
C19_Witness ==
    /\ Matched
    /\ in.modelName = <<"C","h","a","t"," ","P","r","o">>
    /\ in.benchmarks = << Benchmark(<<"P","r","o">>, <<"A","n","t","h","r","o","p","i","c">>) >>
    /\ out = 0

(***************************************************************************)
(* Benchmark Parser.                                                       *)
(*                                                                         *)
(* A JSON value is [t |-> its kind, v |-> its content]: a string's         *)
(* characters, a number as the rational <<numerator, denominator>>, an     *)
(* array's items, an object as the function from its property names to    *)
(* their values.  A JavaScript number is that rational too; NaN is         *)
(* <<0, 0>> and an absent (undefined) number is <<>>.                       *)
(***************************************************************************)
\* bound: longest item list drawn
MaxItems == 2

JUndefined == [t |-> "undefined", v |-> <<>>]
JNull == [t |-> "null", v |-> <<>>]
JBool(b) == [t |-> "boolean", v |-> b]
JNum(q) == [t |-> "number", v |-> q]
JStr(s) == [t |-> "string", v |-> s]
JArr(items) == [t |-> "array", v |-> items]
JObj(props) == [t |-> "object", v |-> props]

NaN == <<0, 0>>
NoNumber == <<>>

\* x[key] !== undefined, and (typeof x === 'object' && key in x), for a
\* JSON value x that is not null: only an object has the properties asked for
hasProp(x, key) == x.t = "object" /\ key \in DOMAIN x.v

\* getValue: the first of keys the item has; reading a property of null throws
getValue(item, keys) ==
    LET present == {i \in DOMAIN keys : hasProp(item, keys[i])}
    IN  IF present = {}
        THEN JUndefined
        ELSE item.v[keys[CHOOSE i \in present : \A j \in present : i <= j]]

\* ---- parseFloat ----
DigitVal ==
    ("0" :> 0) @@ ("1" :> 1) @@ ("2" :> 2) @@ ("3" :> 3) @@ ("4" :> 4) @@
    ("5" :> 5) @@ ("6" :> 6) @@ ("7" :> 7) @@ ("8" :> 8) @@ ("9" :> 9)

\* length of the longest prefix of s made of characters of set
prefixLen(s, set) ==
    IF \E i \in DOMAIN s : s[i] \notin set
    THEN (CHOOSE i \in DOMAIN s : s[i] \notin set /\ \A j \in 1..(i - 1) : s[j] \in set) - 1
    ELSE Len(s)

RECURSIVE digitsToInt(_)
digitsToInt(s) ==
    IF s = <<>> THEN 0 ELSE digitsToInt(SubSeq(s, 1, Len(s) - 1)) * 10 + DigitVal[s[Len(s)]]

RECURSIVE pow10(_)
pow10(n) == IF n = 0 THEN 1 ELSE 10 * pow10(n - 1)

startsWith(s, prefix) == Len(s) >= Len(prefix) /\ SubSeq(s, 1, Len(prefix)) = prefix

\* -q
negate(q) == <<0 - q[1], q[2]>>

\* the digits after a '.' that s starts with: their number, and what follows them
fractionLen(s) == IF startsWith(s, <<".">>) THEN prefixLen(Tail(s), Digits) ELSE 0
afterFraction(s) == IF startsWith(s, <<".">>) THEN SubSeq(s, fractionLen(s) + 2, Len(s)) ELSE s

\* the exponent s starts with (e or E, a sign, digits), 0 when there is none
expDigits(s) == SubSeq(s, 1, prefixLen(s, Digits))
exponentOf(s) ==
    IF ~ (startsWith(s, <<"e">>) \/ startsWith(s, <<"E">>))
    THEN 0
    ELSE IF startsWith(Tail(s), <<"-">>)
         THEN 0 - digitsToInt(expDigits(Tail(Tail(s))))
         ELSE IF startsWith(Tail(s), <<"+">>)
              THEN digitsToInt(expDigits(Tail(Tail(s))))
              ELSE digitsToInt(expDigits(Tail(s)))

\* mantissa / 10^nFrac * 10^exponent
scaled(mantissa, nFrac, exponent) ==
    IF exponent < 0
    THEN <<mantissa, pow10(nFrac) * pow10(0 - exponent)>>
    ELSE <<mantissa * pow10(exponent), pow10(nFrac)>>

\* the leading digits intRun and the text after them
parseDecimal(intRun, rest) ==
    IF Len(intRun) = 0 /\ fractionLen(rest) = 0
    THEN NaN
    ELSE scaled(digitsToInt(intRun \o SubSeq(rest, 2, fractionLen(rest) + 1)),
                fractionLen(rest), exponentOf(afterFraction(rest)))

parseUnsigned(s) ==
    IF startsWith(s, <<"I","n","f","i","n","i","t","y">>)
    THEN <<1, 0>>
    ELSE parseDecimal(SubSeq(s, 1, prefixLen(s, Digits)),
                      SubSeq(s, prefixLen(s, Digits) + 1, Len(s)))

parseSigned(s) ==
    IF startsWith(s, <<"-">>)
    THEN negate(parseUnsigned(Tail(s)))
    ELSE IF startsWith(s, <<"+">>) THEN parseUnsigned(Tail(s)) ELSE parseUnsigned(s)

\* parseFloat(str): the value of the longest prefix (after leading white
\* space) that is a decimal literal, NaN when there is none; <<1, 0>> and
\* <<-1, 0>> are Infinity and -Infinity
parseFloat(str) == parseSigned(SubSeq(str, prefixLen(str, Whitespace) + 1, Len(str)))

\* mutant: a string that parseFloat cannot read is handed on as NaN
toNumber_KeepNaN(val) ==
    IF val.t = "number"
    THEN val.v
    ELSE IF val.t = "string"
         THEN parseFloat(val.v)
         ELSE NoNumber

\* the tail shared by getNumber and getNestedNumber: a number as it is, a
\* string through parseFloat (NaN gives undefined), anything else undefined
toNumber(val) ==
    IF val.t = "number"
    THEN val.v
    ELSE IF val.t = "string"
         THEN IF parseFloat(val.v) = NaN THEN NoNumber ELSE parseFloat(val.v)
         ELSE NoNumber

getNumber(item, keys) == toNumber(getValue(item, keys))

getString(item, keys) ==
    LET val == getValue(item, keys)
    IN  IF val.t = "string" THEN val.v ELSE <<>>

\* the walk of getNestedString / getNestedNumber along path (the dotted path
\* split on '.'); JUndefined when a part is missing on the way
RECURSIVE walk(_, _)
walk(current, path) ==
    IF path = <<>>
    THEN current
    ELSE IF hasProp(current, Head(path))
         THEN walk(current.v[Head(path)], Tail(path))
         ELSE JUndefined

getNestedString(item, path) ==
    LET current == walk(item, path)
    IN  IF current.t = "string" THEN current.v ELSE <<>>

getNestedNumber(item, path) == toNumber(walk(item, path))

\* a ?? b on numbers
orElse(a, b) == IF a = NoNumber THEN b ELSE a

\* mutant: data is the only envelope property looked at
extractModelsArray_DataOnly(raw) ==
    IF raw.t = "array"
    THEN raw.v
    ELSE IF raw.t = "object" /\ hasProp(raw, "data") /\ raw.v["data"].t = "array"
         THEN raw.v["data"].v
         ELSE <<>>

\* mutant: the first envelope property that is present is taken, and gives
\* the empty list when it is no array
extractModelsArray_FirstPresent(raw) ==
    IF raw.t = "array"
    THEN raw.v
    ELSE IF raw.t = "object"
         THEN IF hasProp(raw, "data")
              THEN IF raw.v["data"].t = "array" THEN raw.v["data"].v ELSE <<>>
              ELSE IF hasProp(raw, "models")
                   THEN IF raw.v["models"].t = "array" THEN raw.v["models"].v ELSE <<>>
                   ELSE IF hasProp(raw, "results") /\ raw.v["results"].t = "array"
                        THEN raw.v["results"].v
                        ELSE <<>>
         ELSE <<>>

extractModelsArray(raw) ==
    IF raw.t = "array"
    THEN raw.v
    ELSE IF raw.t = "object"
         THEN IF hasProp(raw, "data") /\ raw.v["data"].t = "array"
              THEN raw.v["data"].v
              ELSE IF hasProp(raw, "models") /\ raw.v["models"].t = "array"
                   THEN raw.v["models"].v
                   ELSE IF hasProp(raw, "results") /\ raw.v["results"].t = "array"
                        THEN raw.v["results"].v
                        ELSE <<>>
         ELSE <<>>

\* the callback of models.map: [k |-> "threw"] when it raises a TypeError,
\* [k |-> "null"] when it returns null, [k |-> "record", r |-> the record]
Threw == [k |-> "threw", r |-> <<>>]
Dropped == [k |-> "null", r |-> <<>>]

\* mutant: an alias that holds no string is passed over for the next one
itemModelName_FirstString(item) ==
    LET aliases == <<"model_name", "name", "model", "modelName", "display_name">>
        strings == {i \in DOMAIN aliases : hasProp(item, aliases[i]) /\ item.v[aliases[i]].t = "string"}
    IN  IF strings = {}
        THEN <<>>
        ELSE item.v[aliases[CHOOSE i \in strings : \A j \in strings : i <= j]].v

itemModelName(item) ==
    getString(item, <<"model_name", "name", "model", "modelName", "display_name">>)

\* mutant: the flat aliases are asked before the nested path
itemCreator_FlatFirst(item) ==
    IF getString(item, <<"creator", "provider", "organization">>) # <<>>
    THEN getString(item, <<"creator", "provider", "organization">>)
    ELSE getNestedString(item, <<"model_creator", "name">>)

itemCreator(item) ==
    IF getNestedString(item, <<"model_creator", "name">>) # <<>>
    THEN getNestedString(item, <<"model_creator", "name">>)
    ELSE getString(item, <<"creator", "provider", "organization">>)

mapItem(item) ==
    IF item.t = "null"
    THEN Threw
    ELSE IF itemModelName(item) = <<>>
         THEN Dropped
         ELSE IF itemCreator(item) = <<>>
              THEN Dropped
              ELSE [k |-> "record",
                    r |-> [modelName |-> itemModelName(item),
                           creator |-> itemCreator(item),
                           intelligenceIndex |->
                              orElse(getNestedNumber(item, <<"evaluations", "artificial_analysis_intelligence_index">>),
                                     getNumber(item, <<"intelligence_index", "intelligenceIndex">>)),
                           codingIndex |->
                              orElse(getNestedNumber(item, <<"evaluations", "artificial_analysis_coding_index">>),
                                     getNumber(item, <<"coding_index", "codingIndex">>)),
                           mathIndex |->
                              orElse(getNestedNumber(item, <<"evaluations", "artificial_analysis_math_index">>),
                                     getNumber(item, <<"math_index", "mathIndex">>)),
                           outputSpeed |->
                              getNumber(item, <<"median_output_tokens_per_second", "output_speed", "outputSpeed">>),
                           latency |->
                              getNumber(item, <<"median_time_to_first_token_seconds", "latency", "ttft">>),
                           priceInput |-> getNumber(item, <<"price_input", "priceInput", "input_price">>),
                           priceOutput |-> getNumber(item, <<"price_output", "priceOutput", "output_price">>)]]

\* .filter(item => item !== null), on the mapped items
RECURSIVE filterRecords(_)
filterRecords(mapped) ==
    IF mapped = <<>>
    THEN <<>>
    ELSE IF Head(mapped).k = "record"
         THEN <<Head(mapped).r>> \o filterRecords(Tail(mapped))
         ELSE filterRecords(Tail(mapped))

\* whether parseBenchmarks(raw) raises instead of returning
parseThrows(raw) ==
    \E i \in DOMAIN extractModelsArray(raw) : mapItem(extractModelsArray(raw)[i]) = Threw

\* the list parseBenchmarks(raw) returns when it does not raise
parseBenchmarks(raw) ==
    LET models == extractModelsArray(raw)
    IN  IF Len(models) = 0
        THEN <<>>
        ELSE filterRecords([i \in DOMAIN models |-> mapItem(models[i])])

\* ---- specification of one parseBenchmarks invocation ----
\* a property list as an object: <<name, value>> pairs, names distinct
Obj(pairs) == JObj([key \in {pairs[i][1] : i \in DOMAIN pairs} |->
                       pairs[CHOOSE i \in DOMAIN pairs : pairs[i][1] = key][2]])
EmptyObj == JObj(<<>>)

ItemPool ==
    { Obj(<< <<"model_name", JStr(<<"C","l","a","u","d","e"," ","H","a","i","k","u"," ","4",".","5">>)>>,
             <<"model_creator", Obj(<< <<"name", JStr(<<"A","n","t","h","r","o","p","i","c">>)>> >>)>>,
             <<"evaluations", Obj(<< <<"artificial_analysis_intelligence_index", JNum(<<521, 10>>)>> >>)>> >>),
      Obj(<< <<"name", JStr(<<"G","P","T","-","4","o">>)>>,
             <<"creator", JStr(<<"O","p","e","n","A","I">>)>>,
             <<"intelligence_index", JStr(<<"4","1",".","5">>)>>,
             <<"price_input", JStr(<<"n","/","a">>)>>,
             <<"latency", JBool(TRUE)>> >>),
      Obj(<< <<"model_name", JStr(<<"L","l","a","m","a">>)>>,
             <<"model_creator", Obj(<< <<"name", JStr(<<>>)>> >>)>>,
             <<"organization", JStr(<<"M","e","t","a">>)>> >>),
      Obj(<< <<"model_name", JStr(<<"O","r","p","h","a","n">>)>> >>),
      Obj(<< <<"model_creator", Obj(<< <<"name", JStr(<<"A","n","t","h","r","o","p","i","c">>)>> >>)>> >>),
      Obj(<< <<"model_name", JNum(<<5, 1>>)>>,
             <<"name", JStr(<<"F","i","v","e">>)>>,
             <<"creator", JStr(<<"O","p","e","n","A","I">>)>> >>),
      Obj(<< <<"model_name", JStr(<<"N","u","l","l","e","d">>)>>,
             <<"model_creator", JNull>>,
             <<"creator", JNull>>,
             <<"provider", JStr(<<"A","c","m","e">>)>> >>),
      Obj(<< <<"modelName", JStr(<<"C","a","m","e","l">>)>>,
             <<"display_name", JStr(<<"D","i","s","p","l","a","y">>)>>,
             <<"provider", JStr(<<"A","c","m","e">>)>>,
             <<"output_speed", JStr(<<"f","a","s","t">>)>>,
             <<"outputSpeed", JNum(<<3, 1>>)>>,
             <<"price_output", JStr(<<"3"," ","u","s","d">>)>> >>),
      Obj(<< <<"model_name", JStr(<<>>)>>,
             <<"name", JStr(<<"N","a","m","e","d">>)>>,
             <<"creator", JStr(<<"O","p","e","n","A","I">>)>> >>),
      Obj(<< <<"model_name", JStr(<<"N","u","m","b","e","r","e","d">>)>>,
             <<"creator", JNum(<<7, 1>>)>>,
             <<"provider", JStr(<<"A","c","m","e">>)>> >>),
      Obj(<< <<"model_name", JStr(<<"B","o","t","h">>)>>,
             <<"model_creator", Obj(<< <<"name", JStr(<<"N","e","s","t","e","d">>)>> >>)>>,
             <<"creator", JStr(<<"F","l","a","t">>)>>,
             <<"evaluations", Obj(<< <<"artificial_analysis_coding_index", JNum(<<0, 1>>)>>,
                                     <<"artificial_analysis_math_index", JStr(<<"n","/","a">>)>> >>)>>,
             <<"coding_index", JNum(<<9, 1>>)>>,
             <<"math_index", JStr(<<"1","2",".","5">>)>>,
             <<"ttft", JNull>> >>),
      EmptyObj,
      JNull,
      JNum(<<7, 1>>),
      JStr(<<"n","a","m","e">>),
      JArr(<< JStr(<<"x">>) >>) }

ItemLists == ListsUpTo(ItemPool, MaxItems)

\* the payloads that carry the item list l: the bare array, the three
\* envelopes and one under a key that is not looked at, an envelope whose
\* data is no array, and envelopes with two lists
Payloads(l) ==
    {JArr(l)}
    \cup {Obj(<< <<key, JArr(l)>> >>) : key \in {"data", "models", "results", "items"}}
    \cup {Obj(<< <<"data", JStr(<<"x">>)>>, <<"results", JArr(l)>> >>),
          Obj(<< <<"data", JArr(l)>>, <<"models", JArr(<<EmptyObj>>)>>, <<"results", JNull>> >>),
          Obj(<< <<"models", JArr(l)>>, <<"results", JArr(<<JStr(<<"x">>)>>)>> >>)}

\* values that hold no model list
ListlessPayloads == {JNull, JNum(<<3, 1>>), JStr(<<"d","a","t","a">>), EmptyObj}

InitParse ==
    /\ fn = "parseBenchmarks"
    /\ \/ \E l \in ItemLists : in \in [raw : Payloads(l)]
       \/ in \in [raw : ListlessPayloads]
    /\ pc = "call"
    /\ out = Pending
    /\ idx = 0
    /\ bestMatch = 0
    /\ bestScore = Zero
    /\ calls = <<>>
    /\ frames = <<>>
    /\ NoPage

\* parseBenchmarks returns its list
ParseReturn ==
    /\ fn = "parseBenchmarks"
    /\ pc = "call"
    /\ ~ parseThrows(in.raw)
    /\ out' = [threw |-> FALSE, value |-> parseBenchmarks(in.raw)]
    /\ pc' = "done"
    /\ UNCHANGED <<gallery, fn, in, idx, bestMatch, bestScore, calls, frames>>

\* the map callback raises a TypeError, which parseBenchmarks lets through
ParseThrow ==
    /\ fn = "parseBenchmarks"
    /\ pc = "call"
    /\ parseThrows(in.raw)
    /\ out' = [threw |-> TRUE, value |-> <<>>]
    /\ pc' = "done"
    /\ UNCHANGED <<gallery, fn, in, idx, bestMatch, bestScore, calls, frames>>

NextParse == ParseReturn \/ ParseThrow

SpecParse == InitParse /\ [][NextParse]_vars

Parsed == fn = "parseBenchmarks" /\ pc = "done"

\* the payload's model list when the payload is an array or carries one
\* under data, models or results
IsModelList(raw) ==
    \/ raw.t = "array"
    \/ raw.t = "object" /\ \E key \in {"data", "models", "results"} :
                              hasProp(raw, key) /\ raw.v[key].t = "array"

\* C4: parseBenchmarks never raises an error: for a payload whose model list
\* is an array of items of any JSON kind it returns a list of records.
C4_NeverThrows == (Parsed /\ IsModelList(in.raw)) => out.threw = FALSE

\* the item's required fields as the claim reads them: a string at the first
\* model-name alias present, and a string at model_creator.name or else at
\* the first creator alias present; <<>> for an item that is no object
NameOf(item) == IF item.t = "object" THEN itemModelName(item) ELSE <<>>
CreatorOf(item) == IF item.t = "object" THEN itemCreator(item) ELSE <<>>
Valid(item) == NameOf(item) # <<>> /\ CreatorOf(item) # <<>>

\* the item without its required fields
Stripped(item) ==
    IF item.t = "object"
    THEN JObj([key \in DOMAIN item.v \
                  {"model_name", "name", "model", "modelName", "display_name",
                   "model_creator", "creator", "provider", "organization"} |-> item.v[key]])
    ELSE item

\* C5: parseBenchmarks returns exactly one record per input item whose
\* modelName and creator resolve to non-empty strings, in input order, and
\* stripping one such item of its required fields lowers the count by one
\* and leaves the other records as they were.
C5_OneRecordPerValidItem ==
    (Parsed /\ in.raw.t = "array") =>
        LET items == in.raw.v
            valid == {i \in DOMAIN items : Valid(items[i])}
        IN  /\ out.threw = FALSE
            /\ Len(out.value) = Cardinality(valid)
            /\ \A i \in valid :
                  LET pos == Cardinality({j \in valid : j <= i})
                      rest == JArr([j \in DOMAIN items |-> IF j = i THEN Stripped(items[j]) ELSE items[j]])
                  IN  /\ out.value[pos].modelName = NameOf(items[i])
                      /\ out.value[pos].creator = CreatorOf(items[i])
                      /\ ~ parseThrows(rest)
                      /\ parseBenchmarks(rest) =
                            SubSeq(out.value, 1, pos - 1) \o SubSeq(out.value, pos + 1, Len(out.value))

\* C6: for every item list L, parseBenchmarks of the bare array L and of
\* {data: L}, {models: L} and {results: L} end alike, with the same records.
C6_EnvelopesAgree ==
    (Parsed /\ in.raw.t = "array") =>
        \A key \in {"data", "models", "results"} :
            LET wrapped == Obj(<< <<key, in.raw>> >>)
            IN  /\ parseThrows(wrapped) = out.threw
                /\ ~ out.threw => parseBenchmarks(wrapped) = out.value

\* a bare array of a kept and a dropped item has been parsed into one record
C6_Witness ==
    /\ Parsed
    /\ in.raw.t = "array"
    /\ Len(in.raw.v) = 2
    /\ out.threw = FALSE
    /\ Len(out.value) = 1
    /\ out.value[1].modelName = <<"G","P","T","-","4","o">>
    /\ Eq(out.value[1].intelligenceIndex, <<83, 2>>)

\* the envelope properties in the order the claim gives them
EnvelopeKeys == <<"data", "models", "results">>

\* the model list as the claim describes it: the payload itself when it is
\* an array; for an object, the value of the first of data, models, results
\* that is an array; the empty list otherwise
ClaimedModelList(raw) ==
    IF raw.t = "array"
    THEN raw.v
    ELSE IF raw.t = "object" /\ \E k \in DOMAIN EnvelopeKeys :
                                   hasProp(raw, EnvelopeKeys[k]) /\ raw.v[EnvelopeKeys[k]].t = "array"
         THEN raw.v[EnvelopeKeys[CHOOSE k \in DOMAIN EnvelopeKeys :
                        /\ hasProp(raw, EnvelopeKeys[k]) /\ raw.v[EnvelopeKeys[k]].t = "array"
                        /\ \A j \in 1..(k - 1) :
                              ~ (hasProp(raw, EnvelopeKeys[j]) /\ raw.v[EnvelopeKeys[j]].t = "array")]].v
         ELSE <<>>

\* the call ended as the parse of the bare list does
EndsAsListDoes(list) ==
    /\ extractModelsArray(in.raw) = list
    /\ out.threw = parseThrows(JArr(list))
    /\ ~ out.threw => out.value = parseBenchmarks(JArr(list))
    /\ list = <<>> => out = [threw |-> FALSE, value |-> <<>>]

\* C20: the parser takes the model list from the payload itself when it is
\* an array; otherwise from the first of the properties data, models,
\* results whose value is an array, skipping one that is present but no
\* array; when none applies it returns an empty list and no error.
C20_ModelListSource == Parsed => EndsAsListDoes(ClaimedModelList(in.raw))

\* a payload whose data is no array and whose results hold a kept item has
\* been parsed into that item's record
C20_Witness ==
    /\ Parsed
    /\ in.raw.t = "object"
    /\ hasProp(in.raw, "data") /\ in.raw.v["data"].t # "array"
    /\ ~ hasProp(in.raw, "models")
    /\ hasProp(in.raw, "results") /\ in.raw.v["results"].t = "array"
    /\ Len(in.raw.v["results"].v) = 1
    /\ out.threw = FALSE
    /\ Len(out.value) = 1

(***************************************************************************)
(* The normalizer (openRouterModels.ts): normalizeModality,                *)
(* tokenPriceToMillionPrice and normalizeOpenRouterModel.  A raw model is  *)
(* the record of its fields, an absent field being Undefined and an        *)
(* optional object (pricing, architecture) a JSON value; a number is a     *)
(* rational <<numerator, denominator>> as in the parser.                   *)
(***************************************************************************)
Null == <<"null">>

RECURSIVE gcd(_, _)
gcd(a, b) == IF b = 0 THEN a ELSE gcd(b, a % b)

\* the rational q (denominator above 0) in lowest terms
lowest(q) ==
    <<q[1] \div gcd(IF q[1] < 0 THEN 0 - q[1] ELSE q[1], q[2]),
      q[2] \div gcd(IF q[1] < 0 THEN 0 - q[1] ELSE q[1], q[2])>>

\* price * 1_000_000, in lowest terms (an infinity stays itself)
timesMillion(price) ==
    IF price[2] = 0
    THEN price
    ELSE lowest(<<lowest(price)[1] * (1000000 \div gcd(1000000, lowest(price)[2])),
                  lowest(price)[2] \div gcd(1000000, lowest(price)[2])>>)

\* if (!modality) return 'text->text'; return modality.toLowerCase()
normalizeModality(modality) ==
    IF modality = Undefined \/ modality = Null \/ modality = <<>>
    THEN <<"t","e","x","t","-",">","t","e","x","t">>
    ELSE toLowerCase(modality)

\* mutant: the NaN of an unparsable price is not replaced by 0
tokenPriceToMillionPrice_NoNaNCheck(pricePerToken) ==
    IF pricePerToken = Undefined \/ pricePerToken = Null \/ pricePerToken = <<>>
    THEN Zero
    ELSE timesMillion(parseFloat(pricePerToken))

\* if (!pricePerToken) return 0; NaN gives 0; otherwise price * 1_000_000
tokenPriceToMillionPrice(pricePerToken) ==
    IF pricePerToken = Undefined \/ pricePerToken = Null \/ pricePerToken = <<>>
    THEN Zero
    ELSE IF parseFloat(pricePerToken) = NaN
         THEN Zero
         ELSE timesMillion(parseFloat(pricePerToken))

\* model.pricing?.prompt, model.pricing?.completion, model.architecture?.modality
optional(object, field) ==
    IF object.t \in {"undefined", "null"} THEN Undefined ELSE object.v[field]

\* model.context_length ?? 0
orZero(value) == IF value = Undefined \/ value = Null THEN Zero ELSE value

\* mutant: both prices are taken from pricing.prompt
normalizeOpenRouterModel_PromptTwice(model) ==
    [ id              |-> model.id,
      name            |-> model.name,
      provider        |-> extractProvider(model.id),
      contextWindow   |-> orZero(model.context_length),
      inputPrice      |-> tokenPriceToMillionPrice(optional(model.pricing, "prompt")),
      outputPrice     |-> tokenPriceToMillionPrice(optional(model.pricing, "prompt")),
      modality        |-> normalizeModality(optional(model.architecture, "modality")),
      description     |-> model.description,
      supportedParams |-> model.supported_parameters,
      capabilities    |-> model.capabilities ]

normalizeOpenRouterModel(model) ==
    [ id              |-> model.id,
      name            |-> model.name,
      provider        |-> extractProvider(model.id),
      contextWindow   |-> orZero(model.context_length),
      inputPrice      |-> tokenPriceToMillionPrice(optional(model.pricing, "prompt")),
      outputPrice     |-> tokenPriceToMillionPrice(optional(model.pricing, "completion")),
      modality        |-> normalizeModality(optional(model.architecture, "modality")),
      description     |-> model.description,
      supportedParams |-> model.supported_parameters,
      capabilities    |-> model.capabilities ]

\* ---- specification of one normalizer invocation ----
\* per-token price strings: every short string over digits, '.', the
\* signs, a letter and a blank, and prices as the provider sends them
PriceStrings ==
    StringsUpTo({"0", "1", ".", "-", "+", "x", " "}, MaxLen)
    \cup { <<"0",".","0","0","0","0","0","1">>, <<"0",".","0","0","0","0","0","5">>, <<"1","e","-","6">>, <<"0",".","0","0","0","0","0","0","2","5">>, <<"f","r","e","e">>,
           <<"I","n","f","i","n","i","t","y">>, <<"-","1">>, <<" ","3","e","-","7"," ">>, <<"2",".","5","E","-","6","u","s","d">> }

\* the prices of a raw model's pricing object
ModelPrices == { Undefined, <<>>, <<"0",".","0","0","0","0","0","1">>, <<"0",".","0","0","0","0","0","5">>, <<"f","r","e","e">>, <<"1","e","-","6">> }

RawPricings ==
    {JUndefined} \cup {JObj(p) : p \in [prompt : ModelPrices, completion : ModelPrices]}

RawArchitectures ==
    {JUndefined} \cup {JObj(a) : a \in [modality : {Undefined, <<>>, <<"T","e","x","t","-",">","T","e","x","t">>, <<"t","e","x","t","+","i","m","a","g","e","-",">","t","e","x","t">>}]}

RawModelIds ==
    { <<"a","n","t","h","r","o","p","i","c","/","c","l","a","u","d","e","-","h","a","i","k","u","-","4",".","5">>, <<"O","p","e","n","A","I","/","g","p","t","-","4","o">>, <<"g","p","t","-","4","o">>, <<"/","x">>,
      <<"a","c","m","e","/","m","/","1">>, <<>> }

RawModels ==
    [ id                   : RawModelIds,
      name                 : { <<"C","l","a","u","d","e"," ","H","a","i","k","u"," ","4",".","5">> },
      description          : { Undefined, <<"f","a","s","t">> },
      context_length       : { Undefined, Null, Zero, <<200000, 1>> },
      pricing              : RawPricings,
      architecture         : RawArchitectures,
      supported_parameters : { UndefinedList, << <<"t","o","o","l","s">> >> },
      capabilities         : { UndefinedList, << <<"s","e","a","r","c","h">> >> } ]

InitNormalize ==
    /\ pc = "call"
    /\ out = Pending
    /\ idx = 0
    /\ bestMatch = 0
    /\ bestScore = Zero
    /\ calls = <<>>
    /\ frames = <<>>
    /\ NoPage
    /\ \/ fn = "normalizeOpenRouterModel" /\ in \in [model : RawModels]
       \/ fn = "tokenPriceToMillionPrice" /\ in \in [pricePerToken : PriceStrings \cup {Undefined}]
       \/ fn = "normalizeModality" /\ in \in [modality : Modalities \cup {Undefined, <<>>, <<"T","e","x","t","-",">","T","e","x","t">>}]

NormalizeOpenRouterModel ==
    fn = "normalizeOpenRouterModel" /\ Return(normalizeOpenRouterModel(in.model))

TokenPriceToMillionPrice ==
    fn = "tokenPriceToMillionPrice" /\ Return(tokenPriceToMillionPrice(in.pricePerToken))

NormalizeModality ==
    fn = "normalizeModality" /\ Return(normalizeModality(in.modality))

NextNormalize == NormalizeOpenRouterModel \/ TokenPriceToMillionPrice \/ NormalizeModality

SpecNormalize == InitNormalize /\ [][NextNormalize]_vars

\* normalizeOpenRouterModel has returned
Normalized == fn = "normalizeOpenRouterModel" /\ pc = "done"

\* C11: the provider of a normalized model is never the empty string, for
\* every model id, with or without '/', an empty text before the first '/'
\* included.
C11_ProviderNeverEmpty == Normalized => out.provider # <<>>

\* the decimal per-token prices drawn, with the price per million tokens
\* each stands for
PerMillionPrice ==
    (<<"0",".","0","0","0","0","0","1">> :> <<1, 1>>) @@ (<<"0",".","0","0","0","0","0","5">> :> <<5, 1>>) @@
    (<<"1","e","-","6">> :> <<1, 1>>) @@ (<<"0",".","0","0","0","0","0","0","2","5">> :> <<1, 4>>) @@
    (<<"-","1">> :> <<0 - 1000000, 1>>) @@ (<<" ","3","e","-","7"," ">> :> <<3, 10>>) @@
    (<<"2",".","5","E","-","6","u","s","d">> :> <<5, 2>>)

\* price is the number value times 1,000,000
IsMillionTimes(price, value) ==
    price[2] # 0 /\ price[1] * value[2] = value[1] * 1000000 * price[2]

\* the price field of a normalized model is the price per million tokens
\* when the raw price is one of the decimal prices
PriceField(price, raw) ==
    raw \in DOMAIN PerMillionPrice => price[2] # 0 /\ Eq(price, PerMillionPrice[raw])

\* the fields of the normalized model that C12 states alike as stated and
\* as amended: all but modality
FieldsButModality ==
    LET model == in.model
    IN  /\ out.id = model.id
        /\ out.name = model.name
        /\ out.provider = extractProvider(model.id)
        /\ out.contextWindow =
              (IF model.context_length \in {Undefined, Null} THEN Zero ELSE model.context_length)
        /\ model.pricing.t = "object" =>
              /\ PriceField(out.inputPrice, model.pricing.v.prompt)
              /\ PriceField(out.outputPrice, model.pricing.v.completion)
        /\ out.description = model.description
        /\ out.supportedParams = model.supported_parameters
        /\ out.capabilities = model.capabilities
        /\ ( /\ model.id = <<"a","n","t","h","r","o","p","i","c","/","c","l","a","u","d","e","-","h","a","i","k","u","-","4",".","5">>
             /\ model.context_length = <<200000, 1>>
             /\ model.pricing.t = "object"
             /\ model.pricing.v.prompt = <<"0",".","0","0","0","0","0","1">>
             /\ model.pricing.v.completion = <<"0",".","0","0","0","0","0","5">> )
           => /\ out.provider = <<"A","n","t","h","r","o","p","i","c">>
              /\ out.contextWindow = <<200000, 1>>
              /\ Eq(out.inputPrice, <<1, 1>>)
              /\ Eq(out.outputPrice, <<5, 1>>)

\* architecture.modality of the raw model, Undefined when absent
RawModality == optional(in.model.architecture, "modality")

\* C12 as stated: every field of the normalized model is built from the raw
\* model on its own: id and name unchanged, provider = extractProvider(id),
\* contextWindow = context_length or 0 when absent, the prices the per-token
\* prices times 1,000,000, modality lower-cased or 'text->text' when absent,
\* description, supportedParams and capabilities passed through; the
\* claude-haiku-4.5 scenario gives Anthropic, 200000, 1 and 5.
C12_FieldsAsStated ==
    Normalized =>
        /\ FieldsButModality
        /\ out.modality = (IF RawModality = Undefined
                           THEN <<"t","e","x","t","-",">","t","e","x","t">>
                           ELSE toLowerCase(RawModality))

\* C12 amended: as stated, but modality is 'text->text' when the raw
\* modality is absent or the empty string, and lower-cased otherwise.
C12_FieldsEmptyModalityDefault ==
    Normalized =>
        /\ FieldsButModality
        /\ out.modality = (IF RawModality = Undefined \/ RawModality = <<>>
                           THEN <<"t","e","x","t","-",">","t","e","x","t">>
                           ELSE toLowerCase(RawModality))
        /\ RawModality = <<"T","e","x","t","-",">","T","e","x","t">> => out.modality = <<"t","e","x","t","-",">","t","e","x","t">>

\* the claude-haiku-4.5 scenario has been normalized
C12_Witness ==
    /\ Normalized
    /\ in.model.id = <<"a","n","t","h","r","o","p","i","c","/","c","l","a","u","d","e","-","h","a","i","k","u","-","4",".","5">>
    /\ in.model.context_length = <<200000, 1>>
    /\ in.model.pricing.t = "object"
    /\ in.model.pricing.v.prompt = <<"0",".","0","0","0","0","0","1">>
    /\ in.model.pricing.v.completion = <<"0",".","0","0","0","0","0","5">>
    /\ RawModality = <<"T","e","x","t","-",">","T","e","x","t">>
    /\ out.provider = <<"A","n","t","h","r","o","p","i","c">>
    /\ out.inputPrice # out.outputPrice

\* tokenPriceToMillionPrice has returned
PriceConverted == fn = "tokenPriceToMillionPrice" /\ pc = "done"

\* the string has a numeric prefix: after leading white space and one
\* optional sign comes a digit, a '.' and a digit, or Infinity
unsignedPart(s) ==
    IF startsWith(s, <<"-">>) \/ startsWith(s, <<"+">>) THEN Tail(s) ELSE s

ParsesAsNumber(s) ==
    LET u == unsignedPart(SubSeq(s, prefixLen(s, Whitespace) + 1, Len(s)))
    IN  \/ startsWith(u, <<"I","n","f","i","n","i","t","y">>)
        \/ Len(u) >= 1 /\ u[1] \in Digits
        \/ Len(u) >= 2 /\ u[1] = "." /\ u[2] \in Digits

\* C14: tokenPriceToMillionPrice returns 0 when the price string is absent,
\* empty or does not parse as a number, and the parsed number times
\* 1,000,000 for every string that parses as a number.
C14_ZeroOrMillionTimes ==
    PriceConverted =>
        LET s == in.pricePerToken
        IN  IF s = Undefined \/ s = <<>> \/ ~ ParsesAsNumber(s)
            THEN out = Zero
            ELSE /\ out # NaN
                 /\ IF parseFloat(s)[2] = 0
                    THEN out = parseFloat(s)
                    ELSE IsMillionTimes(out, parseFloat(s))
                 /\ PriceField(out, s)

\* a text that is no number has been converted to 0
C14_Witness ==
    /\ PriceConverted
    /\ in.pricePerToken = <<"f","r","e","e">>
    /\ out = Zero

\* ---- the fields of a parsed record ----
NameAliases == <<"model_name", "name", "model", "modelName", "display_name">>
CreatorAliases == <<"creator", "provider", "organization">>

\* the value of the first of aliases that is a property of the item
RECURSIVE FirstPresent(_, _)
FirstPresent(item, aliases) ==
    IF aliases = <<>> \/ item.t # "object"
    THEN JUndefined
    ELSE IF Head(aliases) \in DOMAIN item.v
         THEN item.v[Head(aliases)]
         ELSE FirstPresent(item, Tail(aliases))

EmptyOrAbsent(val) == val.t \in {"undefined", "null"} \/ (val.t = "string" /\ val.v = <<>>)
NonEmptyString(val) == val.t = "string" /\ val.v # <<>>

\* the position in the result of the record made of item i, kept being the
\* positions of the items that give a record
PositionOf(i, kept) == Cardinality({j \in kept : j <= i})

\* the records are those of the items at the positions in named whose
\* creator resolves, each under the first present name alias
NameRecordsAre(items, named) ==
    LET kept == {i \in named : itemCreator(items[i]) # <<>>}
    IN  /\ Len(out.value) = Cardinality(kept)
        /\ \A i \in kept :
              out.value[PositionOf(i, kept)].modelName = FirstPresent(items[i], NameAliases).v

ParsedList == Parsed /\ ~ out.threw

\* C21 as stated: the modelName of a record is the value of the first
\* present alias among model_name, name, model, modelName, display_name,
\* and an item is dropped for its name only when that value is empty or
\* absent.
C21_NameAsStated ==
    ParsedList =>
        LET items == extractModelsArray(in.raw)
        IN  NameRecordsAre(items, {i \in DOMAIN items :
                                      ~ EmptyOrAbsent(FirstPresent(items[i], NameAliases))})

\* C21: the modelName of a record is the value of the first present alias
\* among model_name, name, model, modelName, display_name, and an item is
\* dropped for its name exactly when that value is not a non-empty string
\* (empty, absent, or of another type).
C21_NameFirstPresentString ==
    ParsedList =>
        LET items == extractModelsArray(in.raw)
        IN  NameRecordsAre(items, {i \in DOMAIN items :
                                      NonEmptyString(FirstPresent(items[i], NameAliases))})

\* an item whose first alias holds a number was dropped although a later
\* alias holds a string, and an item with two later aliases gave a record
\* named by the earlier one
C21_Witness ==
    /\ ParsedList
    /\ in.raw.t = "array"
    /\ Len(in.raw.v) = 2
    /\ FirstPresent(in.raw.v[1], NameAliases).t = "number"
    /\ hasProp(in.raw.v[1], "name")
    /\ hasProp(in.raw.v[2], "modelName") /\ hasProp(in.raw.v[2], "display_name")
    /\ Len(out.value) = 1
    /\ out.value[1].modelName = <<"C","a","m","e","l">>

\* the value at model_creator.name
NestedValue(item, path) ==
    IF /\ item.t = "object"
       /\ path[1] \in DOMAIN item.v
       /\ item.v[path[1]].t = "object"
       /\ path[2] \in DOMAIN item.v[path[1]].v
    THEN item.v[path[1]].v[path[2]]
    ELSE JUndefined

\* the creator as the claim resolves it
StatedCreator(item) ==
    IF NonEmptyString(NestedValue(item, <<"model_creator", "name">>))
    THEN NestedValue(item, <<"model_creator", "name">>)
    ELSE FirstPresent(item, CreatorAliases)

CreatorRecordsAre(items, credited) ==
    LET kept == {i \in credited : itemModelName(items[i]) # <<>>}
    IN  /\ Len(out.value) = Cardinality(kept)
        /\ \A i \in kept :
              out.value[PositionOf(i, kept)].creator = StatedCreator(items[i]).v

\* C22 as stated: the creator of a record is the non-empty string at
\* model_creator.name, otherwise the value of the first present alias among
\* creator, provider, organization, and an item is dropped for its creator
\* only when that value is empty or absent.
C22_CreatorAsStated ==
    ParsedList =>
        LET items == extractModelsArray(in.raw)
        IN  CreatorRecordsAre(items, {i \in DOMAIN items : ~ EmptyOrAbsent(StatedCreator(items[i]))})

\* C22: the creator of a record is the non-empty string at
\* model_creator.name, otherwise the value of the first present alias among
\* creator, provider, organization, and an item is dropped for its creator
\* exactly when that value is not a non-empty string.
C22_CreatorNestedThenFlatString ==
    ParsedList =>
        LET items == extractModelsArray(in.raw)
        IN  CreatorRecordsAre(items, {i \in DOMAIN items : NonEmptyString(StatedCreator(items[i]))})

\* an item whose creator alias holds a number was dropped although provider
\* holds a string, and an item with both the nested and a flat creator gave
\* a record with the nested one
C22_Witness ==
    /\ ParsedList
    /\ in.raw.t = "array"
    /\ Len(in.raw.v) = 2
    /\ FirstPresent(in.raw.v[1], CreatorAliases).t = "number"
    /\ hasProp(in.raw.v[1], "provider")
    /\ NonEmptyString(FirstPresent(in.raw.v[2], CreatorAliases))
    /\ Len(out.value) = 1
    /\ out.value[1].creator = <<"N","e","s","t","e","d">>

\* the optional numeric fields: the nested path (<<>> when the field has
\* none) and the flat aliases of each
NumericFields ==
    { [field |-> "intelligenceIndex",
       path |-> <<"evaluations", "artificial_analysis_intelligence_index">>,
       aliases |-> <<"intelligence_index", "intelligenceIndex">>],
      [field |-> "codingIndex",
       path |-> <<"evaluations", "artificial_analysis_coding_index">>,
       aliases |-> <<"coding_index", "codingIndex">>],
      [field |-> "mathIndex",
       path |-> <<"evaluations", "artificial_analysis_math_index">>,
       aliases |-> <<"math_index", "mathIndex">>],
      [field |-> "outputSpeed", path |-> <<>>,
       aliases |-> <<"median_output_tokens_per_second", "output_speed", "outputSpeed">>],
      [field |-> "latency", path |-> <<>>,
       aliases |-> <<"median_time_to_first_token_seconds", "latency", "ttft">>],
      [field |-> "priceInput", path |-> <<>>,
       aliases |-> <<"price_input", "priceInput", "input_price">>],
      [field |-> "priceOutput", path |-> <<>>,
       aliases |-> <<"price_output", "priceOutput", "output_price">>] }

\* the number a value stands for: a number itself, a numeric string's
\* number, and none for any other value
NumberIn(val) ==
    IF val.t = "number"
    THEN val.v
    ELSE IF val.t = "string" /\ ParsesAsNumber(val.v)
         THEN parseFloat(val.v)
         ELSE NoNumber

StatedNumber(item, f) ==
    IF f.path # <<>> /\ NumberIn(NestedValue(item, f.path)) # NoNumber
    THEN NumberIn(NestedValue(item, f.path))
    ELSE NumberIn(FirstPresent(item, f.aliases))

\* C23: each optional numeric field of a kept record holds the number at
\* its nested path when that is a number or a numeric string, else the one
\* at the first present flat alias; a non-numeric string or a value of
\* another type leaves the field absent, and the record is kept all the
\* same.
C23_NumbersOrAbsent ==
    ParsedList =>
        LET items == extractModelsArray(in.raw)
            kept == {i \in DOMAIN items : itemModelName(items[i]) # <<>> /\ itemCreator(items[i]) # <<>>}
        IN  /\ Len(out.value) = Cardinality(kept)
            /\ \A i \in kept : \A f \in NumericFields :
                  out.value[PositionOf(i, kept)][f.field] = StatedNumber(items[i], f)

\* an item with a nested 0, a nested non-numeric string over a flat numeric
\* string, and a null alias gave a record with 0, 12.5 and an absent field
C23_Witness ==
    /\ ParsedList
    /\ in.raw.t = "array"
    /\ Len(in.raw.v) = 1
    /\ Len(out.value) = 1
    /\ out.value[1].modelName = <<"B","o","t","h">>
    /\ out.value[1].codingIndex = Zero
    /\ Eq(out.value[1].mathIndex, <<25, 2>>)
    /\ out.value[1].latency = NoNumber

(***************************************************************************)
(* matchBenchmark as one call: the loop of the MatchIterate steps run to   *)
(* its end.  The result is the position of the returned record in          *)
(* benchmarks, 0 for undefined.                                            *)
(***************************************************************************)
RECURSIVE matchLoop(_, _, _, _, _, _, _)
matchLoop(provider, modelName, benchmarks, minMatchThreshold, i, best, score) ==
    IF i > Len(benchmarks)
    THEN best
    ELSE IF replacesBest(benchmarkScore(provider, modelName, benchmarks[i]), score, minMatchThreshold)
         THEN matchLoop(provider, modelName, benchmarks, minMatchThreshold, i + 1, i,
                        benchmarkScore(provider, modelName, benchmarks[i]))
         ELSE matchLoop(provider, modelName, benchmarks, minMatchThreshold, i + 1, best, score)

matchBenchmark(modelId, modelName, benchmarks, minMatchThreshold) ==
    IF Len(benchmarks) = 0
    THEN 0
    ELSE matchLoop(matchProvider(modelId), modelName, benchmarks, minMatchThreshold, 1, 0, Zero)

\* a rational between 0 and top inclusive
Between(q, top) == q[2] > 0 /\ Ge(q, Zero) /\ Ge(top, q)

\* C28: for all pairs of names the similarity lies between 0 and 1 inclusive
\* (the matched-token count never exceeds the larger token count), so every
\* record's score, and the best score kept, lies between 0 and 1.2.
C28_ScoresBounded ==
    fn = "matchBenchmark" =>
        /\ Between(bestScore, <<6, 5>>)
        /\ \A i \in DOMAIN in.benchmarks :
              /\ Between(SimilarityAt(i), <<1, 1>>)
              /\ SimilarityAt(i)[1] <=
                    Larger(Len(extractModelTokens(in.modelName)),
                           Len(extractModelTokens(in.benchmarks[i].modelName)))
              /\ Between(ScoreAt(i), <<6, 5>>)

\* 'Qwen Qwen2' against 'Qwen2 Qwen2.5', where each token of the one is
\* contained in both tokens of the other, was scored 1 * 1.2
C28_Witness ==
    /\ Matched
    /\ in.modelName = <<"Q","w","e","n"," ","Q","w","e","n","2">>
    /\ Len(in.benchmarks) = 1
    /\ in.benchmarks[1].modelName = <<"Q","w","e","n","2"," ","Q","w","e","n","2",".","5">>
    /\ out = 1
    /\ Eq(bestScore, <<6, 5>>)

\* a <= b on rationals
Le(a, b) == Ge(b, a)

\* C29: the threshold only filters: if matchBenchmark returns record r at
\* threshold t, it returns the same r at every threshold t' <= t, and r or
\* no match at every threshold t'' > t; what it returns is an element of
\* the list.
C29_ThresholdOnlyFilters ==
    Matched =>
        /\ out \in 0..Len(in.benchmarks)
        /\ out # 0 =>
              \A other \in Thresholds :
                 LET r == matchBenchmark(in.modelId, in.modelName, in.benchmarks, other)
                 IN  /\ Le(other, in.minMatchThreshold) => r = out
                     /\ Gt(other, in.minMatchThreshold) => r \in {out, 0}

\* the second of three records was returned at threshold 0.5, the first
\* scoring lower and the third as high as the second
C29_Witness ==
    /\ Matched
    /\ in.minMatchThreshold = DefaultThreshold
    /\ Len(in.benchmarks) = 3
    /\ out = 2
    /\ Gt(ScoreAt(2), ScoreAt(1))
    /\ Eq(ScoreAt(3), ScoreAt(2))
    /\ matchBenchmark(in.modelId, in.modelName, in.benchmarks, <<6, 5>>) = 0

\* C30: the name similarity is symmetric: the similarity of the model's name
\* against a record's name equals that of the record's name against the
\* model's.
C30_SimilaritySymmetric ==
    Matched =>
        \A i \in DOMAIN in.benchmarks :
            Eq(calculateSimilarity(in.modelName, in.benchmarks[i].modelName),
               calculateSimilarity(in.benchmarks[i].modelName, in.modelName))

(***************************************************************************)
(* The HTTP layer over the core (server.js): three POST endpoints that     *)
(* validate the JSON body, answer 400 with the messages of all violated    *)
(* fields, and otherwise answer 200 with the core's result.  The request   *)
(* body is a JSON value; a message is a plain string.                      *)
(***************************************************************************)
NormalizeEndpoint == "/api/model-intel/normalize-openrouter"
CapabilitiesEndpoint == "/api/model-intel/capabilities"
ParseMatchEndpoint == "/api/model-intel/benchmarks/parse-match"

\* body[key], undefined when the body is no object or lacks the key
field(body, key) == IF hasProp(body, key) THEN body.v[key] ELSE JUndefined

isNonEmptyString(value) == value.t = "string" /\ value.v # <<>>
isObject(value) == value.t = "object"
isStringArray(value) == value.t = "array" /\ \A i \in DOMAIN value.v : value.v[i].t = "string"

\* the message of a check that failed, nothing for one that passed
unless(ok, message) == IF ok THEN <<>> ELSE <<message>>

\* the first message only
failFast(details) == IF details = <<>> THEN <<>> ELSE <<Head(details)>>

validateNormalize(body) ==
    unless(isObject(field(body, "model")), "model is required")
    \o unless(isNonEmptyString(field(field(body, "model"), "id")), "model.id is required")
    \o unless(isNonEmptyString(field(field(body, "model"), "name")), "model.name is required")

validateCapabilities(body) ==
    unless(isNonEmptyString(field(body, "modelId")), "modelId is required")
    \o unless(isNonEmptyString(field(body, "modelName")), "modelName is required")
    \o unless(field(body, "supportedParams").t = "undefined" \/ isStringArray(field(body, "supportedParams")),
              "supportedParams must be an array of strings")
    \o unless(field(body, "capabilities").t = "undefined" \/ isStringArray(field(body, "capabilities")),
              "capabilities must be an array of strings")

\* mutant: validation stops at the first violated field
validateParseMatch_FailFast(body) ==
    failFast(unless(isNonEmptyString(field(body, "modelId")), "modelId is required")
             \o unless(isNonEmptyString(field(body, "modelName")), "modelName is required")
             \o unless(field(body, "rawBenchmarks").t \notin {"undefined", "null"}, "rawBenchmarks is required"))

validateParseMatch(body) ==
    unless(isNonEmptyString(field(body, "modelId")), "modelId is required")
    \o unless(isNonEmptyString(field(body, "modelName")), "modelName is required")
    \o unless(field(body, "rawBenchmarks").t \notin {"undefined", "null"}, "rawBenchmarks is required")

validate(endpoint, body) ==
    IF endpoint = NormalizeEndpoint
    THEN validateNormalize(body)
    ELSE IF endpoint = CapabilitiesEndpoint
         THEN validateCapabilities(body)
         ELSE validateParseMatch(body)

\* a JSON string as the core's string, a JSON string array as its list
stringOf(value) == IF value.t = "string" THEN value.v ELSE Undefined
stringsOf(value) ==
    IF value.t = "array" THEN [i \in DOMAIN value.v |-> value.v[i].v] ELSE UndefinedList
numberOf(value) ==
    IF value.t = "number" THEN value.v ELSE IF value.t = "null" THEN Null ELSE Undefined

\* the JSON model of a normalize request as the normalizer's raw model
rawModelOf(model) ==
    [ id                   |-> stringOf(field(model, "id")),
      name                 |-> stringOf(field(model, "name")),
      description          |-> stringOf(field(model, "description")),
      context_length       |-> numberOf(field(model, "context_length")),
      pricing              |-> IF isObject(field(model, "pricing"))
                               THEN JObj([prompt     |-> stringOf(field(field(model, "pricing"), "prompt")),
                                          completion |-> stringOf(field(field(model, "pricing"), "completion"))])
                               ELSE JUndefined,
      architecture         |-> IF isObject(field(model, "architecture"))
                               THEN JObj([modality |-> stringOf(field(field(model, "architecture"), "modality"))])
                               ELSE JUndefined,
      supported_parameters |-> stringsOf(field(model, "supported_parameters")),
      capabilities         |-> stringsOf(field(model, "capabilities")) ]

\* the six flags of the capabilities endpoint
capabilityFlags(body) ==
    [ supportsVision           |-> supportsVision(stringOf(field(body, "modality"))),
      supportsAudio            |-> supportsAudio(stringOf(field(body, "modality"))),
      supportsTools            |-> supportsTools(stringsOf(field(body, "supportedParams"))),
      supportsImageGeneration  |->
          supportsImageGeneration(stringOf(field(body, "modality")), stringOf(field(body, "modelId")),
                                  stringOf(field(body, "modelName")), stringsOf(field(body, "capabilities"))),
      supportsFileInput        |->
          supportsFileInput(stringOf(field(body, "modality")), stringsOf(field(body, "supportedParams"))),
      supportsSearchCapability |->
          supportsSearchCapability(stringOf(field(body, "modelId")), stringOf(field(body, "modelName")),
                                   stringsOf(field(body, "capabilities")), stringsOf(field(body, "supportedParams"))) ]

\* parsedCount and match of the parse-match endpoint (match 0 is null)
parseMatch(body) ==
    [ parsedCount |-> Len(parseBenchmarks(field(body, "rawBenchmarks"))),
      match       |-> matchBenchmark(stringOf(field(body, "modelId")), stringOf(field(body, "modelName")),
                                     parseBenchmarks(field(body, "rawBenchmarks")), DefaultThreshold) ]

BadRequest(details) == [status |-> 400, error |-> "Invalid request body", details |-> details]
Ok(payload) == [status |-> 200, payload |-> payload]
ServerError == [status |-> 500]

\* ---- specification of one request ----
HaikuId == JStr(<<"a","n","t","h","r","o","p","i","c","/","c","l","a","u","d","e","-","h","a","i","k","u","-","4",".","5">>)
HaikuName == JStr(<<"C","l","a","u","d","e"," ","H","a","i","k","u"," ","4",".","5">>)
SonarId == JStr(<<"p","e","r","p","l","e","x","i","t","y","/","s","o","n","a","r","-","p","r","o">>)
SonarName == JStr(<<"S","o","n","a","r"," ","P","r","o">>)

\* an object with the listed properties, those whose value is undefined left out
Body(pairs) ==
    JObj([key \in {pairs[i][1] : i \in {j \in DOMAIN pairs : pairs[j][2] # JUndefined}} |->
             pairs[CHOOSE i \in DOMAIN pairs : pairs[i][1] = key][2]])

RequestModels ==
    { JUndefined, JNull, JStr(<<"c","l","a","u","d","e">>) }
    \cup { Body(<< <<"id", id>>, <<"name", name>>, <<"context_length", ctx>>, <<"pricing", pricing>> >>) :
             id \in {JUndefined, JStr(<<>>), JNum(<<7, 1>>), HaikuId},
             name \in {JUndefined, JStr(<<>>), HaikuName},
             ctx \in {JUndefined, JNum(<<200000, 1>>)},
             pricing \in {JUndefined, Obj(<< <<"prompt", JStr(<<"0",".","0","0","0","0","0","1">>)>>, <<"completion", JStr(<<"0",".","0","0","0","0","0","5">>)>> >>)} }

StringArrays ==
    { JUndefined, JNull, JStr(<<"t","o","o","l","s">>), JArr(<<>>), JArr(<<JStr(<<"t","o","o","l","s">>)>>),
      JArr(<<JStr(<<"s","e","a","r","c","h">>)>>), JArr(<<JStr(<<"t","o","o","l","s">>), JNum(<<1, 1>>)>>) }

RequestBenchmarks ==
    { JUndefined, JNull, JArr(<<>>), JStr(<<"n","o","n","e">>),
      Obj(<< <<"data", JArr(<< Obj(<< <<"model_name", HaikuName>>,
                                       <<"model_creator", Obj(<< <<"name", JStr(<<"A","n","t","h","r","o","p","i","c">>)>> >>)>>,
                                       <<"evaluations", Obj(<< <<"artificial_analysis_intelligence_index", JNum(<<521, 10>>)>> >>)>> >>) >>)>> >>),
      JArr(<< JNull >>) }

InitRequest ==
    /\ pc = "call"
    /\ out = Pending
    /\ idx = 0
    /\ bestMatch = 0
    /\ bestScore = Zero
    /\ calls = <<>>
    /\ frames = <<>>
    /\ NoPage
    /\ \/ /\ fn = NormalizeEndpoint
          /\ in \in {[body |-> Body(<< <<"model", model>> >>)] : model \in RequestModels}
       \/ /\ fn = CapabilitiesEndpoint
          /\ in \in {[body |-> Body(<< <<"modelId", id>>, <<"modelName", name>>, <<"modality", modality>>,
                                       <<"supportedParams", params>>, <<"capabilities", caps>> >>)] :
                       id \in {JUndefined, JStr(<<>>), SonarId},
                       name \in {JUndefined, SonarName},
                       modality \in {JUndefined, JStr(<<"t","e","x","t","-",">","t","e","x","t">>)},
                       params \in StringArrays, caps \in StringArrays}
       \/ /\ fn = ParseMatchEndpoint
          /\ in \in {[body |-> Body(<< <<"modelId", id>>, <<"modelName", name>>, <<"rawBenchmarks", raw>> >>)] :
                       id \in {JUndefined, JStr(<<>>), JNum(<<7, 1>>), HaikuId},
                       name \in {JUndefined, JStr(<<>>), HaikuName},
                       raw \in RequestBenchmarks}

\* a body that violates validation is answered 400 with all the messages
Reject ==
    /\ fn \in {NormalizeEndpoint, CapabilitiesEndpoint, ParseMatchEndpoint}
    /\ validate(fn, in.body) # <<>>
    /\ Return(BadRequest(validate(fn, in.body)))

PostNormalize ==
    /\ fn = NormalizeEndpoint
    /\ validate(fn, in.body) = <<>>
    /\ Return(Ok([normalized |-> normalizeOpenRouterModel(rawModelOf(field(in.body, "model")))]))

PostCapabilities ==
    /\ fn = CapabilitiesEndpoint
    /\ validate(fn, in.body) = <<>>
    /\ Return(Ok(capabilityFlags(in.body)))

PostParseMatch ==
    /\ fn = ParseMatchEndpoint
    /\ validate(fn, in.body) = <<>>
    /\ ~ parseThrows(field(in.body, "rawBenchmarks"))
    /\ Return(Ok(parseMatch(in.body)))

\* the core raised (a null item in the model list): no 200 and no 400
PostParseMatchThrows ==
    /\ fn = ParseMatchEndpoint
    /\ validate(fn, in.body) = <<>>
    /\ parseThrows(field(in.body, "rawBenchmarks"))
    /\ Return(ServerError)

NextRequest == Reject \/ PostNormalize \/ PostCapabilities \/ PostParseMatch \/ PostParseMatchThrows

SpecRequest == InitRequest /\ [][NextRequest]_vars

Answered == fn \in {NormalizeEndpoint, CapabilitiesEndpoint, ParseMatchEndpoint} /\ pc = "done"

\* the validation rules of the endpoints: <<endpoint, path of the field,
\* what the field must be, message when it is not>>
ValidationRules ==
    { <<NormalizeEndpoint, <<"model">>, "object", "model is required">>,
      <<NormalizeEndpoint, <<"model", "id">>, "non-empty string", "model.id is required">>,
      <<NormalizeEndpoint, <<"model", "name">>, "non-empty string", "model.name is required">>,
      <<CapabilitiesEndpoint, <<"modelId">>, "non-empty string", "modelId is required">>,
      <<CapabilitiesEndpoint, <<"modelName">>, "non-empty string", "modelName is required">>,
      <<CapabilitiesEndpoint, <<"supportedParams">>, "string array if present", "supportedParams must be an array of strings">>,
      <<CapabilitiesEndpoint, <<"capabilities">>, "string array if present", "capabilities must be an array of strings">>,
      <<ParseMatchEndpoint, <<"modelId">>, "non-empty string", "modelId is required">>,
      <<ParseMatchEndpoint, <<"modelName">>, "non-empty string", "modelName is required">>,
      <<ParseMatchEndpoint, <<"rawBenchmarks">>, "non-null", "rawBenchmarks is required">> }

\* the value at a path of property names in the body
RECURSIVE at(_, _)
at(value, path) == IF path = <<>> THEN value ELSE at(field(value, Head(path)), Tail(path))

Satisfies(value, kind) ==
    IF kind = "object" THEN value.t = "object"
    ELSE IF kind = "non-empty string" THEN value.t = "string" /\ Len(value.v) > 0
    ELSE IF kind = "non-null" THEN value.t # "undefined" /\ value.t # "null"
    ELSE value.t = "undefined" \/ (value.t = "array" /\ \A i \in DOMAIN value.v : value.v[i].t = "string")

\* the messages of the rules the request violates
ViolatedMessages ==
    { rule[4] : rule \in { r \in ValidationRules : r[1] = fn /\ ~ Satisfies(at(in.body, r[2]), r[3]) } }

\* C13: a request that violates validation is answered 400 with error
\* 'Invalid request body' and details holding one message for every violated
\* field, not only the first; no request with a violated field is answered
\* 200.
C13_AllViolationsListed ==
    Answered =>
        /\ ViolatedMessages # {} =>
              /\ out.status = 400
              /\ out.error = "Invalid request body"
              /\ Range(out.details) = ViolatedMessages
              /\ Len(out.details) = Cardinality(ViolatedMessages)
        /\ out.status = 200 => ViolatedMessages = {}

\* a parse-match request with an empty modelId and no rawBenchmarks has been
\* answered with both messages
C13_Witness ==
    /\ Answered
    /\ fn = ParseMatchEndpoint
    /\ in.body = Body(<< <<"modelId", JStr(<<>>)>>, <<"modelName", HaikuName>> >>)
    /\ out.status = 400
    /\ Range(out.details) = {"modelId is required", "rawBenchmarks is required"}

(***************************************************************************)
(* Invocations of the core interleaved for different requests.  Each       *)
(* invocation has its arguments and its own activation record (frame) for  *)
(* the locals of matchBenchmark; matchBenchmark advances one loop          *)
(* iteration at a time between the steps of the other invocations, the     *)
(* other functions run in one step.                                        *)
(***************************************************************************)
\* bound: number of invocations in flight
NumCalls == 2

\* mutant: bestMatch and bestScore live in one place shared by all invocations
Frame_Shared(c) == 1

\* the activation record of invocation c: let bestMatch / let bestScore are
\* locals of the call
Frame(c) == c

\* the benchmark list of n records drawn for an interleaved matchBenchmark
Roster ==
    << Benchmark(<<"C","l","a","u","d","e"," ","S","o","n","n","e","t">>, <<"A","n","t","h","r","o","p","i","c">>),
       Benchmark(<<"C","l","a","u","d","e"," ","H","a","i","k","u">>, <<"O","p","e","n","A","I">>),
       Benchmark(<<"C","l","a","u","d","e"," ","H","a","i","k","u">>, <<"A","n","t","h","r","o","p","i","c">>) >>

LineUp(n) == [i \in 1..n |-> Roster[((i - 1) % Len(Roster)) + 1]]

\* the invocations drawn: fn and arguments
Invocations ==
    { [fn |-> "matchBenchmark", in |-> MatchArgs(t[1], t[2], LineUp(n), DefaultThreshold)] :
        t \in { << <<"a","n","t","h","r","o","p","i","c","/","h","a","i","k","u">>, <<"C","l","a","u","d","e"," ","H","a","i","k","u">> >>,
                << <<"o","p","e","n","a","i","/","g","p","t","-","4","o">>, <<"G","P","T","-","4","o">> >> },
        n \in {0, MaxRecords - 1, MaxRecords} }
    \cup { [fn |-> "parseBenchmarks", in |-> [raw |-> raw]] :
             raw \in { JArr(<<JNull>>),
                       Obj(<< <<"data", JArr(<< Obj(<< <<"model_name", HaikuName>>,
                                                       <<"creator", JStr(<<"A","n","t","h","r","o","p","i","c">>)>> >>) >>)>> >>) } }
    \cup { [fn |-> "normalizeOpenRouterModel",
            in |-> [model |-> [ id |-> <<"a","n","t","h","r","o","p","i","c","/","c","l","a","u","d","e","-","h","a","i","k","u","-","4",".","5">>, name |-> <<"C","l","a","u","d","e"," ","H","a","i","k","u"," ","4",".","5">>,
                                description |-> Undefined, context_length |-> <<200000, 1>>,
                                pricing |-> JObj([prompt |-> <<"0",".","0","0","0","0","0","1">>, completion |-> <<"0",".","0","0","0","0","0","5">>]),
                                architecture |-> JUndefined,
                                supported_parameters |-> UndefinedList, capabilities |-> UndefinedList ]]] }
    \cup { [fn |-> "supportsSearchCapability",
            in |-> Args(<<"p","e","r","p","l","e","x","i","t","y","/","s","o","n","a","r","-","p","r","o">>, <<"S","o","n","a","r"," ","P","r","o">>, Undefined, UndefinedList, UndefinedList)] }

NewFrame == [idx |-> 0, bestMatch |-> 0, bestScore |-> Zero]

InitInterleaved ==
    /\ fn = "interleaved"
    /\ in = <<>>
    /\ pc = "calls"
    /\ out = Pending
    /\ idx = 0
    /\ bestMatch = 0
    /\ bestScore = Zero
    /\ calls \in [1..NumCalls -> {[fn |-> i.fn, in |-> i.in, pc |-> "call", out |-> Pending] : i \in Invocations}]
    /\ frames = [c \in 1..NumCalls |-> NewFrame]
    /\ NoPage

\* invocation c returns value
Returns(c, value) ==
    /\ calls' = [calls EXCEPT ![c].pc = "done", ![c].out = value]
    /\ UNCHANGED <<gallery, fn, in, pc, out, idx, bestMatch, bestScore>>

\* if (!benchmarks.length) return undefined
InterleavedMatchEmpty(c) ==
    /\ calls[c].fn = "matchBenchmark"
    /\ calls[c].pc = "call"
    /\ Len(calls[c].in.benchmarks) = 0
    /\ Returns(c, 0)
    /\ UNCHANGED frames

\* let bestMatch; let bestScore = 0; and the loop is entered
InterleavedMatchBegin(c) ==
    /\ calls[c].fn = "matchBenchmark"
    /\ calls[c].pc = "call"
    /\ Len(calls[c].in.benchmarks) > 0
    /\ frames' = [frames EXCEPT ![Frame(c)] = NewFrame]
    /\ calls' = [calls EXCEPT ![c].pc = "loop"]
    /\ UNCHANGED <<gallery, fn, in, pc, out, idx, bestMatch, bestScore>>

\* the step of one iteration on the frame it runs in
iterate(frame, args) ==
    IF replacesBest(benchmarkScore(matchProvider(args.modelId), args.modelName, args.benchmarks[frame.idx + 1]),
                    frame.bestScore, args.minMatchThreshold)
    THEN [idx |-> frame.idx + 1, bestMatch |-> frame.idx + 1,
          bestScore |-> benchmarkScore(matchProvider(args.modelId), args.modelName, args.benchmarks[frame.idx + 1])]
    ELSE [frame EXCEPT !.idx = frame.idx + 1]

\* one iteration of for (const benchmark of benchmarks)
InterleavedMatchIterate(c) ==
    /\ calls[c].fn = "matchBenchmark"
    /\ calls[c].pc = "loop"
    /\ frames[Frame(c)].idx < Len(calls[c].in.benchmarks)
    /\ frames' = [frames EXCEPT ![Frame(c)] = iterate(frames[Frame(c)], calls[c].in)]
    /\ UNCHANGED <<gallery, fn, in, pc, out, idx, bestMatch, bestScore, calls>>

\* return bestMatch
InterleavedMatchReturn(c) ==
    /\ calls[c].fn = "matchBenchmark"
    /\ calls[c].pc = "loop"
    /\ frames[Frame(c)].idx >= Len(calls[c].in.benchmarks)
    /\ Returns(c, frames[Frame(c)].bestMatch)
    /\ UNCHANGED frames

InterleavedParse(c) ==
    /\ calls[c].fn = "parseBenchmarks"
    /\ calls[c].pc = "call"
    /\ ~ parseThrows(calls[c].in.raw)
    /\ Returns(c, [threw |-> FALSE, value |-> parseBenchmarks(calls[c].in.raw)])
    /\ UNCHANGED frames

InterleavedParseThrow(c) ==
    /\ calls[c].fn = "parseBenchmarks"
    /\ calls[c].pc = "call"
    /\ parseThrows(calls[c].in.raw)
    /\ Returns(c, [threw |-> TRUE, value |-> <<>>])
    /\ UNCHANGED frames

InterleavedNormalize(c) ==
    /\ calls[c].fn = "normalizeOpenRouterModel"
    /\ calls[c].pc = "call"
    /\ Returns(c, normalizeOpenRouterModel(calls[c].in.model))
    /\ UNCHANGED frames

InterleavedCapability(c) ==
    /\ calls[c].fn = "supportsSearchCapability"
    /\ calls[c].pc = "call"
    /\ Returns(c, supportsSearchCapability(calls[c].in.modelId, calls[c].in.modelName,
                                           calls[c].in.capabilities, calls[c].in.supportedParams))
    /\ UNCHANGED frames

NextInterleaved ==
    \/ \E c \in DOMAIN calls : InterleavedMatchEmpty(c)
    \/ \E c \in DOMAIN calls : InterleavedMatchBegin(c)
    \/ \E c \in DOMAIN calls : InterleavedMatchIterate(c)
    \/ \E c \in DOMAIN calls : InterleavedMatchReturn(c)
    \/ \E c \in DOMAIN calls : InterleavedParse(c)
    \/ \E c \in DOMAIN calls : InterleavedParseThrow(c)
    \/ \E c \in DOMAIN calls : InterleavedNormalize(c)
    \/ \E c \in DOMAIN calls : InterleavedCapability(c)

SpecInterleaved == InitInterleaved /\ [][NextInterleaved]_vars

\* what the invocation returns when it runs alone on its own arguments
Alone(call) ==
    IF call.fn = "matchBenchmark"
    THEN matchBenchmark(call.in.modelId, call.in.modelName, call.in.benchmarks, call.in.minMatchThreshold)
    ELSE IF call.fn = "parseBenchmarks"
    THEN [threw |-> parseThrows(call.in.raw),
          value |-> IF parseThrows(call.in.raw) THEN <<>> ELSE parseBenchmarks(call.in.raw)]
    ELSE IF call.fn = "normalizeOpenRouterModel"
    THEN normalizeOpenRouterModel(call.in.model)
    ELSE supportsSearchCapability(call.in.modelId, call.in.modelName, call.in.capabilities, call.in.supportedParams)

\* every invocation that has returned has the result of running alone
ResultsAsAlone ==
    \A c \in DOMAIN calls : calls[c].pc = "done" => calls[c].out = Alone(calls[c])

\* a step leaves every invocation's function and arguments as they are,
\* leaves an invocation that has returned and its frame as they are, and
\* changes the frame of one invocation at most
StepKeepsOthers ==
    /\ \A c \in DOMAIN calls : calls'[c].fn = calls[c].fn /\ calls'[c].in = calls[c].in
    /\ \A c \in DOMAIN calls : calls[c].pc = "done" => calls'[c] = calls[c] /\ frames'[c] = frames[c]
    /\ \A c, d \in DOMAIN calls : frames'[c] # frames[c] /\ frames'[d] # frames[d] => c = d

\* C15: interleaved invocations of the core do not interfere: each returns
\* what it returns alone on its own arguments, and no step of one writes
\* state another reads, or modifies an input list or its items.
C15_NoInterference == [] ResultsAsAlone /\ [][StepKeepsOthers]_vars

\* two matchBenchmark invocations are inside their loops at once, each with
\* its own progress: one has replaced its best match twice, the other has
\* passed two records without a match
C15_Witness ==
    /\ DOMAIN calls = 1..NumCalls
    /\ \E c, d \in DOMAIN calls :
          /\ calls[c].fn = "matchBenchmark" /\ calls[c].pc = "loop"
          /\ frames[c].idx = 2 /\ frames[c].bestMatch = 2
          /\ calls[d].fn = "matchBenchmark" /\ calls[d].pc = "loop"
          /\ frames[d].idx = 2 /\ frames[d].bestMatch = 0

(***************************************************************************)
(* The gallery page (js/script.js): the posters are the article elements   *)
(* of the carousel, --k is the scroll position the style sheet derives,    *)
(* --hov = '1' marks a flipped poster and the class 'centered' the poster  *)
(* updateCenteredArticle found nearest the centre.  --k is held as its     *)
(* numerator over KDen; the positions drawn are ones at which no poster    *)
(* is at distance exactly 0.05, so that the comparison with the threshold  *)
(* is the same in exact arithmetic and in doubles.                         *)
(***************************************************************************)
\* bound: largest number of posters in the carousel
MaxPosters == 12

\* the denominator of --k
KDen == 20 * 20

\* scroll positions: -0.9975, -0.9725, ... 0.9775 (steps of 0.025)
KGrid == {10 * m + 1 : m \in (0 - 40)..39}

Abs(x) == IF x < 0 THEN 0 - x ELSE x

\* (k + 1) % 1, as a numerator over KDen (k >= -1)
frac(kNum) == (kNum + KDen) % KDen

\* diff = Math.abs(index / articles.length - ((k + 1) % 1)), times
\* articles.length * KDen; index counts from 0
diff(index, length, kNum) == Abs(index * KDen - length * frac(kNum))

\* diff < 0.05
withinThreshold(index, length, kNum) == 20 * diff(index, length, kNum) < length * KDen

\* updateCenteredArticle: the class is taken from every article and given
\* to the first of the closest ones when it is within the threshold
updateCenteredArticle(arts, kNum) ==
    LET length == Len(arts)
        closestArticle ==
            CHOOSE i \in DOMAIN arts :
                \A j \in DOMAIN arts :
                    \/ diff(i - 1, length, kNum) < diff(j - 1, length, kNum)
                    \/ diff(i - 1, length, kNum) = diff(j - 1, length, kNum) /\ i <= j
    IN  [i \in DOMAIN arts |->
            [arts[i] EXCEPT !.centered = (i = closestArticle /\ withinThreshold(i - 1, length, kNum))]]

\* the flip of article i: --hov is removed from every other article and
\* toggled on article i
flip(arts, i) ==
    [j \in DOMAIN arts |-> [arts[j] EXCEPT !.hov = IF j = i THEN ~ arts[i].hov ELSE FALSE]]

NoEvent == [type |-> "none", target |-> 0, shiftKey |-> FALSE]

Unflipped(n) == [i \in 1..n |-> [hov |-> FALSE, centered |-> FALSE]]

\* the page after the posters are loaded and updateCenteredArticle has run
InitGallery ==
    /\ fn = "gallery"
    /\ in = <<>>
    /\ pc = "page"
    /\ out = Pending
    /\ idx = 0
    /\ bestMatch = 0
    /\ bestScore = <<0, 1>>
    /\ calls = <<>>
    /\ frames = <<>>
    /\ cssK \in KGrid
    /\ articles \in {updateCenteredArticle(Unflipped(n), cssK) : n \in 1..MaxPosters}
    /\ fullArticle = 0
    /\ event = NoEvent

\* the scroll listener: the page has scrolled one step and the centered
\* article is found again (the body does not scroll under a full article)
Scroll(kNum) ==
    /\ fn = "gallery"
    /\ fullArticle = 0
    /\ kNum \in KGrid
    /\ Abs(kNum - cssK) = 10
    /\ cssK' = kNum
    /\ articles' = updateCenteredArticle(articles, kNum)
    /\ event' = [type |-> "scroll", target |-> 0, shiftKey |-> FALSE]
    /\ UNCHANGED <<fullArticle, core>>

\* the click listener, for a click inside article i
Click(i, shiftKey) ==
    /\ fn = "gallery"
    /\ i \in DOMAIN articles
    /\ event' = [type |-> "click", target |-> i, shiftKey |-> shiftKey]
    /\ IF withinThreshold(i - 1, Len(articles), cssK)
       THEN IF shiftKey
            THEN fullArticle' = i /\ UNCHANGED articles
            ELSE articles' = flip(articles, i) /\ UNCHANGED fullArticle
       ELSE UNCHANGED <<articles, fullArticle>>
    /\ UNCHANGED <<cssK, core>>

\* a click on the close button: closeFullArticle
ClickClose ==
    /\ fn = "gallery"
    /\ event' = [type |-> "click", target |-> 0, shiftKey |-> FALSE]
    /\ fullArticle' = 0
    /\ UNCHANGED <<articles, cssK, core>>

\* the keydown listener for Enter: acts on article.centered if there is one
KeydownEnter(shiftKey) ==
    /\ fn = "gallery"
    /\ event' = [type |-> "keydown Enter", target |-> 0, shiftKey |-> shiftKey]
    /\ IF \E i \in DOMAIN articles : articles[i].centered
       THEN LET centeredArticle ==
                    CHOOSE i \in DOMAIN articles :
                        articles[i].centered /\ \A j \in 1..(i - 1) : ~ articles[j].centered
            IN  IF shiftKey
                THEN fullArticle' = centeredArticle /\ UNCHANGED articles
                ELSE articles' = flip(articles, centeredArticle) /\ UNCHANGED fullArticle
       ELSE UNCHANGED <<articles, fullArticle>>
    /\ UNCHANGED <<cssK, core>>

\* the keydown listener for Escape: closeFullArticle
KeydownEscape ==
    /\ fn = "gallery"
    /\ event' = [type |-> "keydown Escape", target |-> 0, shiftKey |-> FALSE]
    /\ fullArticle' = 0
    /\ UNCHANGED <<articles, cssK, core>>

NextGallery ==
    \/ \E kNum \in KGrid : Scroll(kNum)
    \/ \E i \in 1..MaxPosters, shiftKey \in BOOLEAN : Click(i, shiftKey)
    \/ ClickClose
    \/ \E shiftKey \in BOOLEAN : KeydownEnter(shiftKey)
    \/ KeydownEscape

SpecGallery == InitGallery /\ [][NextGallery]_vars

\* the poster the step clicked on was not the centered one
ClickedBeside ==
    /\ event'.type = "click"
    /\ event'.target \in DOMAIN articles
    /\ ~ articles[event'.target].centered

\* C27: for every number of posters and every scroll position, a click or
\* Shift+click on a poster flips or opens it only when it is the poster
\* marked 'centered'; a click on any other poster changes no poster's flip
\* state and opens no full article.
C27_OnlyCenteredResponds ==
    [][ClickedBeside => (articles' = articles /\ fullArticle' = fullArticle)]_vars

(***************************************************************************)
(* The core as a whole: one invocation of any of its functions.            *)
(***************************************************************************)
Init == InitProvider \/ InitCaps \/ InitMatch \/ InitParse \/ InitNormalize \/ InitRequest \/ InitInterleaved

Next == NextProvider \/ NextCaps \/ NextMatch \/ NextParse \/ NextNormalize \/ NextRequest \/ NextInterleaved

Spec == Init /\ [][Next]_vars

====
